---- MODULE Spec2Model ----
(***************************************************************************)
(* SentinelWatch detection engine (tail_detector.py) and its mode          *)
(* controller (web_ui.py).                                                 *)
(*                                                                         *)
(* Threads are the controller's request handlers, the mode threads started *)
(* by _run_mode_background and the label/watchlist request handlers.       *)
(* A thread can lose the processor between the statements of a handler;    *)
(* the model keeps the interleaving points that separate a test of shared  *)
(* state from the write that depends on it across a call: the registry     *)
(* membership test and the construction of the DeviceProfile, the rows of  *)
(* a batch, the end of a scan and the sleep of a loop.                     *)
(***************************************************************************)
EXTENDS Integers, Sequences, FiniteSets, TLC

\* ---------------------------------------------------------------- bounds
MaxStarts == 2        \* startMode calls
MaxCycles == 2        \* scans begun over a run
MaxRows == 3          \* backend rows handed out over a run
MaxApiCalls == 1      \* label / watchlist requests
MaxPublished == 203   \* alerts pushed by the alert-bus publishers
MaxScans == 2         \* scan_and_correlate calls
MaxBatch == 2         \* rows of the capture file one scan_and_correlate reads
MaxWatchCalls == 2    \* label and watchlist calls made on a watchlist on file
MaxLogged == 10       \* alerts in the log when /api/alerts is asked
MaxDoorbellCycles == 5   \* scan cycles of a long DOORBELL run
MaxHistory == 6       \* readings in a history the trend is asked for
MaxBurst == 2         \* alerts published while the stream is watched

\* ------------------------------------------------------- program constants
HistoryCap == 20                      \* signal_history capacity
AlertCap == 200                       \* alert log capacity
MailboxCap == 50                      \* queue.Queue(maxsize=50) of a subscriber
TrendWindow == 5                      \* readings the trend looks at
TrendDelta == 5                       \* dBm change that counts as a trend
unknown_ssid_linger_minutes == 2      \* configured linger threshold, in ticks
signal_approaching_threshold == -65
DefaultMinLocations == 2              \* get_ranked_stalkers(min_locations=2, ...)
DefaultAlertLimit == 50                \* get_recent_alerts(limit=50)
DefaultLimit == 20                    \* get_ranked_stalkers(..., limit=20)
min_location_separation_km == 2       \* 0.5 km, in quarter kilometres
AcceptRadius == 4                     \* 1.0 km, in quarter kilometres

Macs == {"m1"}
Signals == {-70, -60}
Labels == {"", "Bob"}
Groups == {"unknown", "watchlist"}
Modes == {"HOME", "ROAM", "DOORBELL", "WATCHLIST"}
\* config["alerts"]["known_device_arrival_notify"]
known_device_arrival_notify == TRUE
Publishers == {"p1", "p2"}
Subscribers == {"s1", "s2"}

VARIABLES
    devices,            \* TailDetector.devices: mac -> DeviceProfile
    current_mode,       \* TailDetector.current_mode
    present_macs,       \* TailDetector.present_macs
    linger_first_seen,  \* TailDetector._linger_first_seen: mac -> the time since
                        \* that moment, counted up to the linger threshold
    linger_alerted,     \* TailDetector._linger_alerted
    alert_queue,        \* tail_detector._alert_queue
    published,          \* alerts appended so far; an alert's timestamp
                        \* (datetime.now() read under the lock) is its number
    threads,            \* the mode threads ever started, in start order
    bg_thread,          \* web_ui._bg_thread: index into threads, 0 for None
    stop_events,        \* every threading.Event made for _bg_stop_event
    req,                \* the startMode request in progress
    api,                \* the label / watchlist request in progress
    cycles_left,        \* scans still to be begun
    rows_left,          \* backend rows still to be handed out
    api_left,           \* label / watchlist requests still to be made
    alert_lock,         \* tail_detector._alert_lock: its holder, "" when free
    pub,                \* where each alert-bus publisher is in _push_alert
    sse_clients,        \* web_ui._sse_clients: the registered mailboxes, in order
    sse_lock,           \* web_ui._sse_lock: its holder, "" when free
    mailbox,            \* subscriber -> the queue.Queue of its connection
    received,           \* subscriber -> the payloads its connection took from the queue
    conn,               \* subscriber -> where its /api/stream connection is
    pusher,             \* the _alert_pusher thread: pc, last_count, payload
    pub_left,           \* alerts still to be published on the stream
    whitelist_file,     \* the file at whitelist_path: what the last save made of it
    profiles,           \* MultiLocationTracker.profiles, in insertion order
    our_checkpoints,    \* MultiLocationTracker.our_checkpoints: the places they mark
    ranked,             \* what the last get_ranked_stalkers returned, and its limit
    scans_left,         \* scan_and_correlate calls still to come
    notif,              \* TailDetector._notif is the notifications module, not None
    dispatched,         \* the alerts handed to the notifications module, in call order
    recent              \* the last answer of GET /api/alerts: its limit and its alerts

vars == <<devices, current_mode, present_macs, linger_first_seen, linger_alerted,
          alert_queue, published, threads, bg_thread, stop_events, req, api,
          cycles_left, rows_left, api_left, alert_lock, pub,
          sse_clients, sse_lock, mailbox, received, conn, pusher, pub_left,
          whitelist_file, profiles, our_checkpoints, ranked, scans_left,
          notif, dispatched, recent>>

\* The state of the GPS correlator.
tracker_vars == <<profiles, our_checkpoints, ranked, scans_left>>

\* The state of the alert stream.
stream_vars == <<sse_clients, sse_lock, mailbox, received, conn, pusher, pub_left>>

\* ------------------------------------------------------------- alert bus
Alert(level, kind, mac) == [level |-> level, kind |-> kind, mac |-> mac]

\* The dict _push_alert appends.
Stamped(a, ts) ==
    [level |-> a.level, kind |-> a.kind, mac |-> a.mac, timestamp |-> ts]

\* A variant: _push_alert dropping the entry it has just appended (pop() for pop(0)).
EvictNewest(q) == IF Len(q) > AlertCap THEN SubSeq(q, 1, AlertCap) ELSE q

\* if len(_alert_queue) > 200: _alert_queue.pop(0)
Evict(q) == IF Len(q) > AlertCap THEN Tail(q) ELSE q

\* _push_alert as a whole (it runs under _alert_lock): the log after alert
\* number ts has been appended.
PushAlert(q, a, ts) == Evict(Append(q, Stamped(a, ts)))

RECURSIVE PushAll(_, _, _)
PushAll(q, as, n) ==
    IF as = <<>> THEN q
    ELSE PushAll(PushAlert(q, Head(as), n + 1), Tail(as), n + 1)

\* ------------------------------------------------------------- profiles
\* DeviceProfile with its dataclass defaults.
NewProfile ==
    [label |-> "", group |-> "unknown",
     total_encounters |-> 0, home_encounters |-> 0, roam_encounters |-> 0,
     signal_history |-> <<>>, signal_trend |-> "unknown",
     modes_seen_in |-> <<>>, is_watchlisted |-> FALSE,
     cross_mode_detected |-> FALSE]

Range(f) == {f[i] : i \in DOMAIN f}
EmptyDict == [m \in {} |-> 0]
Min(a, b) == IF a < b THEN a ELSE b
Without(d, keys) == [m \in DOMAIN d \ keys |-> d[m]]
\* d[key] = value : bind or rebind the key.
Store(d, key, value) == [m \in DOMAIN d \cup {key} |-> IF m = key THEN value ELSE d[m]]

\* A backend row as _parse_kismet_db hands it on: the signal may be missing.
HasSignal(raw) == "signal" \in DOMAIN raw
Rows == [mac : Macs] \cup [mac : Macs, signal : Signals]
\* The rows the mode threads are fed: the signal column is NULL.
ScanRows == [mac : Macs]

\* A variant: _update_profile cutting the history with [:20] for [-20:].
AppendSignalKeepOldest(hist, raw) ==
    IF HasSignal(raw)
    THEN LET h == Append(hist, raw.signal)
         IN  IF Len(h) > HistoryCap THEN SubSeq(h, 1, HistoryCap) ELSE h
    ELSE hist

\* p.signal_history.append(...) and the cut to the last 20 readings.
AppendSignal(hist, raw) ==
    IF HasSignal(raw)
    THEN LET h == Append(hist, raw.signal)
         IN  IF Len(h) > HistoryCap
             THEN SubSeq(h, Len(h) - HistoryCap + 1, Len(h))
             ELSE h
    ELSE hist

\* if mode and mode not in p.modes_seen_in: p.modes_seen_in.append(mode)
AddMode(seen, mode) ==
    IF mode \in Range(seen) THEN seen ELSE Append(seen, mode)

\* _update_profile on the profile it looked up or created.
UpdateProfile(p, raw, mode) ==
    [p EXCEPT !.total_encounters = @ + 1,
              !.signal_history = AppendSignal(@, raw),
              !.modes_seen_in = AddMode(@, mode)]

\* A variant: calculate_signal_trend without the [-5:] cut.
CalculateSignalTrendWhole(hist) ==
    IF Len(hist) < 2 THEN "unknown"
    ELSE LET delta == hist[Len(hist)] - hist[1]
         IN  IF delta > TrendDelta THEN "approaching"
             ELSE IF delta < -TrendDelta THEN "receding"
             ELSE "stable"

\* calculate_signal_trend over a profile's history.
CalculateSignalTrend(hist) ==
    LET n == Len(hist)
        w == IF n > TrendWindow THEN SubSeq(hist, n - TrendWindow + 1, n) ELSE hist
    IN  IF Len(w) < 2 THEN "unknown"
        ELSE LET delta == w[Len(w)] - w[1]
             IN  IF delta > TrendDelta THEN "approaching"
                 ELSE IF delta < -TrendDelta THEN "receding"
                 ELSE "stable"

\* _check_cross_mode: the profile after the call and the alerts it fired.
CheckCrossMode(p, mac, mode) ==
    LET other == IF mode = "HOME" THEN "ROAM" ELSE "HOME"
    IN  IF other \in Range(p.modes_seen_in) /\ ~p.cross_mode_detected
        THEN [p |-> [p EXCEPT !.cross_mode_detected = TRUE],
              alerts |-> <<Alert("CRITICAL", "cross_mode", mac)>>]
        ELSE [p |-> p, alerts |-> <<>>]

\* A variant: _check_linger without the test `mac not in self._linger_alerted`.
CheckLingerRepeats(devs, first_seen, alerted, mac) ==
    IF mac \notin DOMAIN devs \/ devs[mac].label = ""
    THEN IF mac \notin DOMAIN first_seen
         THEN [first_seen |-> Store(first_seen, mac, 0), alerted |-> alerted,
               alerts |-> <<>>]
         ELSE IF first_seen[mac] >= unknown_ssid_linger_minutes
              THEN [first_seen |-> first_seen, alerted |-> alerted \cup {mac},
                    alerts |-> <<Alert("WARNING", "linger", mac)>>]
              ELSE [first_seen |-> first_seen, alerted |-> alerted, alerts |-> <<>>]
    ELSE [first_seen |-> Without(first_seen, {mac}),
          alerted |-> alerted \ {mac}, alerts |-> <<>>]

\* _check_linger: the linger state after the call and the alerts it fired.
CheckLinger(devs, first_seen, alerted, mac) ==
    IF mac \notin DOMAIN devs \/ devs[mac].label = ""
    THEN IF mac \notin DOMAIN first_seen
         THEN [first_seen |-> Store(first_seen, mac, 0), alerted |-> alerted,
               alerts |-> <<>>]
         ELSE IF first_seen[mac] >= unknown_ssid_linger_minutes
                 /\ mac \notin alerted
              THEN [first_seen |-> first_seen, alerted |-> alerted \cup {mac},
                    alerts |-> <<Alert("WARNING", "linger", mac)>>]
              ELSE [first_seen |-> first_seen, alerted |-> alerted, alerts |-> <<>>]
    ELSE [first_seen |-> Without(first_seen, {mac}),
          alerted |-> alerted \ {mac}, alerts |-> <<>>]

\* ------------------------------------------------- one row of a scan, per mode
\* What one pass of a mode's row loop leaves behind: the registry, the linger
\* state, the alerts fired, and the thread's own sets.
\* `create` is the outcome of the test `mac not in self.devices` made earlier.
Looked(devs, mac, create) == IF create THEN Store(devs, mac, NewProfile) ELSE devs

\* run_home_mode, body of the row loop.
HomeRow(devs, fs, al, raw, create) ==
    LET mac == raw.mac
        d0 == Looked(devs, mac, create)
        p1 == UpdateProfile(d0[mac], raw, "HOME")
        p2 == [p1 EXCEPT !.home_encounters = @ + 1,
                         !.signal_trend = CalculateSignalTrend(p1.signal_history)]
        cm == CheckCrossMode(p2, mac, "HOME")
        d1 == Store(d0, mac, cm.p)
        lg == CheckLinger(d1, fs, al, mac)
    IN  [devices |-> d1, first_seen |-> lg.first_seen, alerted |-> lg.alerted,
         alerts |-> cm.alerts \o lg.alerts]

\* run_roam_mode._scan, body of the row loop.
RoamRow(devs, fs, al, raw, create) ==
    LET mac == raw.mac
        d0 == Looked(devs, mac, create)
        p1 == UpdateProfile(d0[mac], raw, "ROAM")
        p2 == [p1 EXCEPT !.signal_trend = CalculateSignalTrend(p1.signal_history)]
        p3 == IF "HOME" \notin Range(p2.modes_seen_in)
              THEN [p2 EXCEPT !.roam_encounters = @ + 1] ELSE p2
        wl == IF p3.is_watchlisted
              THEN <<Alert("CRITICAL", "watchlist_hit", mac)>> ELSE <<>>
        sig == IF HasSignal(raw) THEN raw.signal ELSE -100
        ap == IF p3.signal_trend = "approaching" /\ sig > signal_approaching_threshold
              THEN <<Alert("WARNING", "approaching", mac)>> ELSE <<>>
        cm == IF "HOME" \in Range(p3.modes_seen_in)
              THEN CheckCrossMode(p3, mac, "ROAM")
              ELSE [p |-> p3, alerts |-> <<>>]
    IN  [devices |-> Store(d0, mac, cm.p), first_seen |-> fs, alerted |-> al,
         alerts |-> wl \o ap \o cm.alerts]

StreakOf(streak, mac) == IF mac \in DOMAIN streak THEN streak[mac] ELSE 0

\* run_doorbell_mode, body of the row loop (rows past the age limit never get here).
DoorbellRow(devs, fs, al, raw, create, th) ==
    LET mac == raw.mac
        d0 == Looked(devs, mac, create)
        p == UpdateProfile(d0[mac], raw, "DOORBELL")
        d1 == Store(d0, mac, p)
        arrived == mac \notin th.prev_present
        counted == arrived /\ p.label = ""
        streak == IF counted
                  THEN Store(th.unknown_streak, mac, StreakOf(th.unknown_streak, mac) + 1)
                  ELSE th.unknown_streak
        arr == IF ~arrived THEN <<>>
               ELSE IF p.label # "" THEN <<Alert("INFO", "arrival", mac)>>
               ELSE IF p.is_watchlisted THEN <<Alert("CRITICAL", "watchlist_arrived", mac)>>
               ELSE <<Alert(IF streak[mac] >= 3 THEN "WARNING" ELSE "INFO", "unknown", mac)>>
        lg == IF p.label = "" THEN CheckLinger(d1, fs, al, mac)
              ELSE [first_seen |-> fs, alerted |-> al, alerts |-> <<>>]
    IN  [devices |-> d1, first_seen |-> lg.first_seen, alerted |-> lg.alerted,
         alerts |-> arr \o lg.alerts,
         current_macs |-> th.current_macs \cup {mac}, unknown_streak |-> streak]

\* run_watchlist_mode, body of the row loop.
WatchlistRow(raw, th) ==
    IF raw.mac \in th.w_macs
    THEN <<Alert("CRITICAL", "watchlisted", raw.mac)>> ELSE <<>>

\* get_watchlist, and the list run_watchlist_mode builds when it starts.
GetWatchlist(devs) ==
    {m \in DOMAIN devs : devs[m].is_watchlisted \/ devs[m].group = "watchlist"}

\* ----------------------------------------------------------------- threads
NoRow == [mac |-> ""]
NewThread(mode) ==
    [mode |-> mode, pc |-> "start", raw |-> NoRow, scanned |-> FALSE,
     prev_present |-> {}, current_macs |-> {},
     unknown_streak |-> EmptyDict, w_macs |-> {}]

Alive(t) == threads[t].pc # "done"
Continuous(t) == threads[t].mode \in {"ROAM", "DOORBELL"}
\* The event that was _bg_stop_event when thread t was started.
EventOf(t) == t + 1

IdleApi == [pc |-> "idle", op |-> "label", mac |-> "", label |-> "", group |-> "unknown"]

\* No GET /api/alerts answered yet.
NoAnswer == [limit |-> DefaultAlertLimit, alerts |-> <<>>]

\* web_ui at import: no subscriber, the pusher thread at the head of its loop.
NoPayload == [level |-> "", kind |-> "", mac |-> "", timestamp |-> 0]
StreamStart ==
    /\ sse_clients = <<>>
    /\ sse_lock = ""
    /\ mailbox = [s \in Subscribers |-> <<>>]
    /\ received = [s \in Subscribers |-> <<>>]
    /\ conn = [s \in Subscribers |-> [pc |-> "off", since |-> 0]]
    /\ pusher = [pc |-> "test", last_count |-> 0, payload |-> NoPayload, polled_at |-> 0]
    /\ pub_left = MaxBurst

\* A MultiLocationTracker with no data file: no profile, no checkpoint.
TrackerStart ==
    /\ profiles = <<>>
    /\ our_checkpoints = {}
    /\ ranked = [limit |-> DefaultLimit, list |-> <<>>]
    /\ scans_left = MaxScans

Init ==
    /\ devices = EmptyDict
    /\ current_mode = "IDLE"
    /\ present_macs = {}
    /\ linger_first_seen = EmptyDict
    /\ linger_alerted = {}
    /\ alert_queue = <<>>
    /\ published = 0
    /\ threads = <<>>
    /\ bg_thread = 0
    /\ stop_events = <<FALSE>>
    /\ req = [pc |-> "idle", mode |-> "HOME"]
    /\ api = IdleApi
    /\ cycles_left = MaxCycles
    /\ rows_left = MaxRows
    /\ api_left = MaxApiCalls
    /\ alert_lock = ""
    /\ pub = [p \in Publishers |-> "idle"]
    /\ StreamStart
    /\ whitelist_file = "unwritten"
    /\ TrackerStart
    /\ notif = TRUE
    /\ dispatched = <<>>
    /\ recent = NoAnswer

\* A variant: _save_whitelist swallowing the exception without a word.
SaveAlertsSilent(saved) == <<>>

\* _save_whitelist: the file is rewritten, or the attempt raises and a WARNING
\* is fired; `saved` says which.  The registry is only read.
SaveAlerts(saved) == IF saved THEN <<>> ELSE <<Alert("WARNING", "save_failed", "")>>
SaveWhitelist(saved) == whitelist_file' = IF saved THEN "written" ELSE "failed"

\* The alerts whose fire_alert call is followed by a call of the notifications
\* module: dispatch_alert after the cross-mode alert, notify_unknown_ssid_linger
\* after the linger alert, notify_watchlist_hit after the three watchlist
\* alerts, notify_known_arrival after the arrival alert when the configuration
\* asks for it.
NotifiedKinds ==
    {"cross_mode", "linger", "watchlist_hit", "watchlist_arrived", "watchlisted"}
        \cup (IF known_device_arrival_notify THEN {"arrival"} ELSE {})

\* A variant: the calls of the notifications module made without `if self._notif`.
DispatchOfUnguarded(alerts, present) ==
    SelectSeq(alerts, LAMBDA a : a.kind \in NotifiedKinds)

\* The calls of the notifications module the alerts come with: each call is
\* under `if self._notif`.
DispatchOf(alerts, present) ==
    IF present THEN SelectSeq(alerts, LAMBDA a : a.kind \in NotifiedKinds) ELSE <<>>

\* fire_alert, once for each of `alerts` in turn, and the calls of the
\* notifications module that follow them.
Fire(alerts) ==
    /\ alert_queue' = PushAll(alert_queue, alerts, published)
    /\ published' = published + Len(alerts)
    /\ dispatched' = dispatched \o DispatchOf(alerts, notif)

\* --------------------------------------------------------- startMode
\* _run_mode_background, first half: signal the current event; the join that
\* follows returns when the thread has ended or after its timeout.
StartModeSignal(mode) ==
    /\ req.pc = "idle"
    /\ Len(threads) < MaxStarts
    /\ req' = [pc |-> "join", mode |-> mode]
    /\ stop_events' = [stop_events EXCEPT ![Len(stop_events)] = TRUE]
    /\ UNCHANGED <<devices, current_mode, present_macs, linger_first_seen,
                   linger_alerted, alert_queue, published, dispatched, threads, bg_thread, api,
                   cycles_left, rows_left, api_left,
                   alert_lock, pub>>
    /\ UNCHANGED stream_vars
    /\ UNCHANGED whitelist_file
    /\ UNCHANGED tracker_vars
    /\ UNCHANGED notif
    /\ UNCHANGED recent

\* _run_mode_background, second half: a fresh event, a fresh thread, started.
StartModeLaunch ==
    /\ req.pc = "join"
    /\ req' = [req EXCEPT !.pc = "idle"]
    /\ stop_events' = Append(stop_events, FALSE)
    /\ threads' = Append(threads, NewThread(req.mode))
    /\ bg_thread' = Len(threads) + 1
    /\ UNCHANGED <<devices, current_mode, present_macs, linger_first_seen,
                   linger_alerted, alert_queue, published, dispatched, api, cycles_left, rows_left, api_left,
                   alert_lock, pub>>
    /\ UNCHANGED stream_vars
    /\ UNCHANGED whitelist_file
    /\ UNCHANGED tracker_vars
    /\ UNCHANGED notif
    /\ UNCHANGED recent

\* ------------------------------------------------------- mode threads
\* The first statements of run_*_mode.
ThreadStart(t) ==
    /\ threads[t].pc = "start"
    /\ current_mode' = threads[t].mode
    /\ IF threads[t].mode = "WATCHLIST"
       THEN LET wl == GetWatchlist(devices)
            IN  IF wl = {}
                THEN /\ Fire(<<Alert("INFO", "watchlist_empty", "")>>)
                     /\ threads' = [threads EXCEPT ![t].pc = "done"]
                ELSE /\ Fire(<<Alert("INFO", "watchlist_mode", "")>>)
                     /\ threads' = [threads EXCEPT ![t].pc = "rows", ![t].w_macs = wl]
       ELSE /\ Fire(<<Alert("INFO", "mode_started", "")>>)
            /\ threads' = [threads EXCEPT ![t].pc = "fetch"]
    /\ UNCHANGED <<devices, present_macs, linger_first_seen, linger_alerted,
                   bg_thread, stop_events, req, api, cycles_left, rows_left, api_left,
                   alert_lock, pub>>
    /\ UNCHANGED stream_vars
    /\ UNCHANGED whitelist_file
    /\ UNCHANGED tracker_vars
    /\ UNCHANGED notif
    /\ UNCHANGED recent

\* What the head of a scan finds: capture files that can be queried, no capture
\* file, or a capture file whose query raises inside _parse_kismet_db.
Fetches == {"files", "no_files", "query_failed"}

\* _get_kismet_files at the head of a scan and the query of _parse_kismet_db.
\* A failed query publishes its WARNING and yields no row (pc "end": the row
\* loop has nothing to iterate over).  Without a file HOME returns, ROAM's
\* _scan returns, and DOORBELL's loops over the files run zero times.
ThreadFetch(t, files) ==
    /\ threads[t].pc = "fetch"
    /\ cycles_left > 0
    /\ cycles_left' = cycles_left - 1
    /\ CASE files = "files" ->
              /\ threads' = [threads EXCEPT ![t].pc = "rows", ![t].current_macs = {}]
              /\ UNCHANGED <<alert_queue, published, dispatched>>
         [] files = "query_failed" ->
              /\ threads' = [threads EXCEPT ![t].pc = "end", ![t].current_macs = {}]
              /\ Fire(<<Alert("WARNING", "db_error", "")>>)
         [] files = "no_files" /\ threads[t].mode = "HOME" ->
              /\ threads' = [threads EXCEPT ![t].pc = "done"]
              /\ Fire(<<Alert("WARNING", "no_files", "")>>)
         [] files = "no_files" /\ threads[t].mode = "ROAM" ->
              /\ threads' = [threads EXCEPT ![t].scanned = TRUE]
              /\ Fire(<<Alert("WARNING", "no_files", ""), Alert("INFO", "next_scan", "")>>)
         [] OTHER ->
              /\ threads' = [threads EXCEPT ![t].pc = "end", ![t].current_macs = {}]
              /\ UNCHANGED <<alert_queue, published, dispatched>>
    /\ UNCHANGED <<devices, current_mode, present_macs, linger_first_seen,
                   linger_alerted, bg_thread, stop_events, req, api, rows_left, api_left,
                   alert_lock, pub>>
    /\ UNCHANGED stream_vars
    /\ UNCHANGED whitelist_file
    /\ UNCHANGED tracker_vars
    /\ UNCHANGED notif
    /\ UNCHANGED recent

\* The body of the row loop for `raw`, the membership test having said `create`.
Apply(t, raw, create) ==
    LET th == threads[t]
    IN  CASE th.mode = "HOME" ->
              LET r == HomeRow(devices, linger_first_seen, linger_alerted, raw, create)
              IN  /\ devices' = r.devices
                  /\ linger_first_seen' = r.first_seen
                  /\ linger_alerted' = r.alerted
                  /\ Fire(r.alerts)
                  /\ threads' = [threads EXCEPT ![t].pc = "rows", ![t].raw = NoRow]
         [] th.mode = "ROAM" ->
              LET r == RoamRow(devices, linger_first_seen, linger_alerted, raw, create)
              IN  /\ devices' = r.devices
                  /\ linger_first_seen' = r.first_seen
                  /\ linger_alerted' = r.alerted
                  /\ Fire(r.alerts)
                  /\ threads' = [threads EXCEPT ![t].pc = "rows", ![t].raw = NoRow]
         [] th.mode = "DOORBELL" ->
              LET r == DoorbellRow(devices, linger_first_seen, linger_alerted, raw, create, th)
              IN  /\ devices' = r.devices
                  /\ linger_first_seen' = r.first_seen
                  /\ linger_alerted' = r.alerted
                  /\ Fire(r.alerts)
                  /\ threads' = [threads EXCEPT ![t].pc = "rows", ![t].raw = NoRow,
                                                ![t].current_macs = r.current_macs,
                                                ![t].unknown_streak = r.unknown_streak]

\* The next row of the batch: the registry membership test, and the rest of the
\* loop body when the profile is there.
ThreadRow(t, raw) ==
    /\ threads[t].pc = "rows"
    /\ rows_left > 0
    /\ rows_left' = rows_left - 1
    /\ IF threads[t].mode = "WATCHLIST"
       THEN /\ Fire(WatchlistRow(raw, threads[t]))
            /\ UNCHANGED <<devices, linger_first_seen, linger_alerted, threads>>
       ELSE IF raw.mac \in DOMAIN devices
       THEN Apply(t, raw, FALSE)
       ELSE /\ threads' = [threads EXCEPT ![t].pc = "create", ![t].raw = raw]
            /\ UNCHANGED <<devices, linger_first_seen, linger_alerted, alert_queue, published, dispatched>>
    /\ UNCHANGED <<current_mode, present_macs, bg_thread, stop_events, req, api,
                   cycles_left, api_left,
                   alert_lock, pub>>
    /\ UNCHANGED stream_vars
    /\ UNCHANGED whitelist_file
    /\ UNCHANGED tracker_vars
    /\ UNCHANGED notif
    /\ UNCHANGED recent

\* self.devices[mac] = DeviceProfile(...) after the test found no profile, and
\* the rest of the loop body.
ThreadCreate(t) ==
    /\ threads[t].pc = "create"
    /\ Apply(t, threads[t].raw, TRUE)
    /\ UNCHANGED <<current_mode, present_macs, bg_thread, stop_events, req, api,
                   cycles_left, rows_left, api_left,
                   alert_lock, pub>>
    /\ UNCHANGED stream_vars
    /\ UNCHANGED whitelist_file
    /\ UNCHANGED tracker_vars
    /\ UNCHANGED notif
    /\ UNCHANGED recent

\* The orders in which a set can be walked.
Orders(S) == {o \in [1..Cardinality(S) -> S] : Range(o) = S}

\* What follows the row loop: the save, and for a continuous mode the sleep
\* that ends the cycle.  `order` is the walk of prev_present - current_macs,
\* `saved` the outcome of _save_whitelist.
ThreadEndScan(t, order, saved) ==
    LET th == threads[t]
        gone == th.prev_present \ th.current_macs
    IN
    /\ th.pc \in {"rows", "end"}
    /\ CASE th.mode = "HOME" ->
              /\ order = <<>>
              /\ Fire(SaveAlerts(saved))
              /\ SaveWhitelist(saved)
              /\ threads' = [threads EXCEPT ![t].pc = "done"]
              /\ UNCHANGED <<present_macs, linger_first_seen, linger_alerted>>
         [] th.mode = "ROAM" ->
              /\ order = <<>>
              /\ Fire(SaveAlerts(saved) \o <<Alert("INFO", "next_scan", "")>>)
              /\ SaveWhitelist(saved)
              /\ threads' = [threads EXCEPT ![t].pc = "fetch", ![t].scanned = TRUE]
              /\ UNCHANGED <<present_macs, linger_first_seen, linger_alerted>>
         [] th.mode = "DOORBELL" ->
              /\ order \in Orders(gone)
              /\ Fire([i \in DOMAIN order |-> Alert("INFO", "departure", order[i])]
                      \o SaveAlerts(saved))
              /\ SaveWhitelist(saved)
              /\ linger_first_seen' = Without(linger_first_seen, gone)
              /\ linger_alerted' = linger_alerted \ gone
              /\ present_macs' = th.current_macs
              /\ threads' = [threads EXCEPT ![t].pc = "fetch", ![t].scanned = TRUE,
                                            ![t].prev_present = th.current_macs,
                                            ![t].current_macs = {},
                                            ![t].unknown_streak = Without(@, gone)]
         [] OTHER ->
              /\ order = <<>>
              /\ saved
              /\ threads' = [threads EXCEPT ![t].pc = "done"]
              /\ UNCHANGED <<alert_queue, published, dispatched, present_macs, linger_first_seen,
                             linger_alerted, whitelist_file>>
    /\ UNCHANGED <<devices, current_mode, bg_thread, stop_events, req, api,
                   cycles_left, rows_left, api_left,
                   alert_lock, pub>>
    /\ UNCHANGED stream_vars
    /\ UNCHANGED tracker_vars
    /\ UNCHANGED notif
    /\ UNCHANGED recent

\* ------------------------------------------------- label / watchlist requests
\* label_device, add_to_watchlist, remove_from_watchlist once the profile is
\* looked up or created: the field writes, the save, the alert.
ApiApply(op, mac, label, group, create, saved) ==
    LET d0 == Looked(devices, mac, create)
        p == CASE op = "label" -> [d0[mac] EXCEPT !.label = label, !.group = group]
               [] op = "add" -> [d0[mac] EXCEPT !.is_watchlisted = TRUE, !.group = "watchlist"]
               [] op = "remove" ->
                    [d0[mac] EXCEPT !.is_watchlisted = FALSE,
                                    !.group = IF @ = "watchlist" THEN "unknown" ELSE @]
        kind == CASE op = "label" -> "labeled"
                  [] op = "add" -> "watchlist_added"
                  [] op = "remove" -> "watchlist_removed"
        level == IF op = "add" THEN "WARNING" ELSE "INFO"
    IN  /\ devices' = Store(d0, mac, p)
        /\ SaveWhitelist(saved)
        /\ Fire(SaveAlerts(saved) \o <<Alert(level, kind, mac)>>)

\* A request arrives: the test `mac not in self.devices`, and the rest of the
\* handler when the profile is there.
ApiCall(op, mac, label, group, saved) ==
    /\ api.pc = "idle"
    /\ api_left > 0
    /\ api_left' = api_left - 1
    /\ op = "label" \/ (label = "" /\ group = "unknown")
    /\ IF mac \in DOMAIN devices
       THEN /\ ApiApply(op, mac, label, group, FALSE, saved)
            /\ UNCHANGED api
       ELSE IF op = "remove"
       THEN /\ saved
            /\ UNCHANGED <<devices, alert_queue, published, dispatched, api, whitelist_file>>
       ELSE /\ saved
            /\ api' = [pc |-> "create", op |-> op, mac |-> mac, label |-> label, group |-> group]
            /\ UNCHANGED <<devices, alert_queue, published, dispatched, whitelist_file>>
    /\ UNCHANGED <<current_mode, present_macs, linger_first_seen, linger_alerted,
                   threads, bg_thread, stop_events, req, cycles_left, rows_left,
                   alert_lock, pub>>
    /\ UNCHANGED stream_vars
    /\ UNCHANGED tracker_vars
    /\ UNCHANGED notif
    /\ UNCHANGED recent

\* self.devices[mac] = DeviceProfile(mac=mac) after the test found no profile,
\* and the rest of the handler.
ApiCreate(saved) ==
    /\ api.pc = "create"
    /\ ApiApply(api.op, api.mac, api.label, api.group, TRUE, saved)
    /\ api' = IdleApi
    /\ UNCHANGED <<current_mode, present_macs, linger_first_seen, linger_alerted,
                   threads, bg_thread, stop_events, req, cycles_left, rows_left, api_left,
                   alert_lock, pub>>
    /\ UNCHANGED stream_vars
    /\ UNCHANGED tracker_vars
    /\ UNCHANGED notif
    /\ UNCHANGED recent

\* Time passes: every running linger clock advances (datetime.now() moves on).
Tick ==
    /\ \E m \in DOMAIN linger_first_seen :
           linger_first_seen[m] < unknown_ssid_linger_minutes
    /\ linger_first_seen' =
           [m \in DOMAIN linger_first_seen |->
               IF linger_first_seen[m] < unknown_ssid_linger_minutes
               THEN linger_first_seen[m] + 1 ELSE linger_first_seen[m]]
    /\ UNCHANGED <<devices, current_mode, present_macs, linger_alerted,
                   alert_queue, published, dispatched, threads, bg_thread, stop_events, req, api,
                   cycles_left, rows_left, api_left,
                   alert_lock, pub>>
    /\ UNCHANGED stream_vars
    /\ UNCHANGED whitelist_file
    /\ UNCHANGED tracker_vars
    /\ UNCHANGED notif
    /\ UNCHANGED recent

Next ==
    \/ \E mode \in Modes : StartModeSignal(mode)
    \/ StartModeLaunch
    \/ \E t \in DOMAIN threads : ThreadStart(t)
    \/ \E t \in DOMAIN threads, files \in Fetches : ThreadFetch(t, files)
    \/ \E t \in DOMAIN threads, raw \in ScanRows : ThreadRow(t, raw)
    \/ \E t \in DOMAIN threads : ThreadCreate(t)
    \/ \E t \in DOMAIN threads, saved \in {TRUE} :
          \E order \in Orders(threads[t].prev_present \ threads[t].current_macs) \cup {<<>>} :
              ThreadEndScan(t, order, saved)
    \/ \E op \in {"label", "add", "remove"}, mac \in Macs, label \in Labels, group \in Groups,
          saved \in {TRUE} :
          ApiCall(op, mac, label, group, saved)
    \/ \E saved \in {TRUE} : ApiCreate(saved)
    \/ Tick

\* Every save succeeds.
Spec == Init /\ [][Next]_vars

\* --------------------------------------------------------- POST /api/mode
\* The mode strings a client may post.
ModeRequests == {"home", "HOME", "ROAM", "DOORBELL", "WATCHLIST", "SCREENSAVER"}

\* str.upper() on the strings posted.
Upper(str) == IF str = "home" THEN "HOME" ELSE str

\* api_mode: the posted mode in upper case is tested against `valid`; a mode
\* outside it is answered with 400 and _run_mode_background is not called.
\* req.mode is the handler's local `mode`.
ApiMode(posted) ==
    LET mode == Upper(posted)
    IN  IF mode \in Modes
        THEN StartModeSignal(mode)
        ELSE /\ req.pc = "idle"
             /\ req' = [pc |-> "idle", mode |-> mode]
             /\ UNCHANGED <<devices, current_mode, present_macs, linger_first_seen,
                            linger_alerted, alert_queue, published, dispatched, threads,
                            bg_thread, stop_events, api, cycles_left, rows_left, api_left,
                            alert_lock, pub>>
             /\ UNCHANGED stream_vars
             /\ UNCHANGED whitelist_file
             /\ UNCHANGED tracker_vars
             /\ UNCHANGED notif
             /\ UNCHANGED recent

\* The control surface and the mode tasks, without label or watchlist calls.
NextControl ==
    \/ \E posted \in ModeRequests : ApiMode(posted)
    \/ StartModeLaunch
    \/ \E t \in DOMAIN threads : ThreadStart(t)
    \/ \E t \in DOMAIN threads, files \in Fetches : ThreadFetch(t, files)
    \/ \E t \in DOMAIN threads, raw \in ScanRows : ThreadRow(t, raw)
    \/ \E t \in DOMAIN threads : ThreadCreate(t)
    \/ \E t \in DOMAIN threads :
          \E order \in Orders(threads[t].prev_present \ threads[t].current_macs) \cup {<<>>} :
              ThreadEndScan(t, order, TRUE)
    \/ Tick

SpecControl == Init /\ [][NextControl]_vars

\* ------------------------------------------------ a watchlist on file
\* The program started on a whitelist file that has every device on the
\* watchlist (_load_whitelist), with room for a removal and a later call.
\* Every device has its profile, so no task or call creates one.
InitWatch ==
    /\ devices = [m \in Macs |->
                    [NewProfile EXCEPT !.is_watchlisted = TRUE, !.group = "watchlist"]]
    /\ current_mode = "IDLE"
    /\ present_macs = {}
    /\ linger_first_seen = EmptyDict
    /\ linger_alerted = {}
    /\ alert_queue = <<>>
    /\ published = 0
    /\ threads = <<>>
    /\ bg_thread = 0
    /\ stop_events = <<FALSE>>
    /\ req = [pc |-> "idle", mode |-> "HOME"]
    /\ api = IdleApi
    /\ cycles_left = MaxCycles
    /\ rows_left = MaxRows
    /\ api_left = MaxWatchCalls
    /\ alert_lock = ""
    /\ pub = [p \in Publishers |-> "idle"]
    /\ StreamStart
    /\ whitelist_file = "unwritten"
    /\ TrackerStart
    /\ notif = TRUE
    /\ dispatched = <<>>
    /\ recent = NoAnswer

NextWatch ==
    \/ \E mode \in {"ROAM", "WATCHLIST"} : StartModeSignal(mode)
    \/ StartModeLaunch
    \/ \E t \in DOMAIN threads : ThreadStart(t)
    \/ \E t \in DOMAIN threads : ThreadFetch(t, "files")
    \/ \E t \in DOMAIN threads, raw \in ScanRows : ThreadRow(t, raw)
    \/ \E t \in DOMAIN threads :
          \E order \in Orders(threads[t].prev_present \ threads[t].current_macs) \cup {<<>>} :
              ThreadEndScan(t, order, TRUE)
    \/ \E op \in {"label", "add", "remove"}, mac \in Macs, label \in Labels, group \in Groups :
          ApiCall(op, mac, label, group, TRUE)

SpecWatch == InitWatch /\ [][NextWatch]_vars

\* ------------------------------------------------ a long DOORBELL run
\* The program with time for a DOORBELL task to see a device come and go
\* more than once.
InitDoorbell ==
    /\ devices = EmptyDict
    /\ current_mode = "IDLE"
    /\ present_macs = {}
    /\ linger_first_seen = EmptyDict
    /\ linger_alerted = {}
    /\ alert_queue = <<>>
    /\ published = 0
    /\ threads = <<>>
    /\ bg_thread = 0
    /\ stop_events = <<FALSE>>
    /\ req = [pc |-> "idle", mode |-> "HOME"]
    /\ api = IdleApi
    /\ cycles_left = MaxDoorbellCycles
    /\ rows_left = MaxRows
    /\ api_left = MaxApiCalls
    /\ alert_lock = ""
    /\ pub = [p \in Publishers |-> "idle"]
    /\ StreamStart
    /\ whitelist_file = "unwritten"
    /\ TrackerStart
    /\ notif = TRUE
    /\ dispatched = <<>>
    /\ recent = NoAnswer

NextDoorbell ==
    \/ StartModeSignal("DOORBELL")
    \/ StartModeLaunch
    \/ \E t \in DOMAIN threads : ThreadStart(t)
    \/ \E t \in DOMAIN threads, files \in {"files", "no_files"} : ThreadFetch(t, files)
    \/ \E t \in DOMAIN threads, raw \in ScanRows : ThreadRow(t, raw)
    \/ \E t \in DOMAIN threads : ThreadCreate(t)
    \/ \E t \in DOMAIN threads :
          \E order \in Orders(threads[t].prev_present \ threads[t].current_macs) \cup {<<>>} :
              ThreadEndScan(t, order, TRUE)

SpecDoorbell == InitDoorbell /\ [][NextDoorbell]_vars

\* ------------------------------------------------ scans with signal readings
\* The mode tasks fed with rows whose signal column is NULL or a reading.
NextSignals ==
    \/ \E mode \in {"HOME", "ROAM", "DOORBELL"} : StartModeSignal(mode)
    \/ StartModeLaunch
    \/ \E t \in DOMAIN threads : ThreadStart(t)
    \/ \E t \in DOMAIN threads : ThreadFetch(t, "files")
    \/ \E t \in DOMAIN threads, raw \in Rows : ThreadRow(t, raw)
    \/ \E t \in DOMAIN threads : ThreadCreate(t)
    \/ \E t \in DOMAIN threads :
          \E order \in Orders(threads[t].prev_present \ threads[t].current_macs) \cup {<<>>} :
              ThreadEndScan(t, order, TRUE)

SpecSignals == Init /\ [][NextSignals]_vars

\* ------------------------------------------- the counters, statement by statement
\* `p.total_encounters += 1` in _update_profile reads the counter and writes
\* it back in separate steps of the interpreter, and nothing keeps another
\* thread from running in between.  The read: the row's profile is there, and
\* the value read stays with the thread.
ThreadLoadTotal(t, raw) ==
    /\ threads[t].pc = "rows"
    /\ threads[t].mode \in {"HOME", "ROAM"}
    /\ raw.mac \in DOMAIN devices
    /\ rows_left > 0
    /\ rows_left' = rows_left - 1
    /\ threads' = [threads EXCEPT
                      ![t].pc = "store",
                      ![t].raw = [mac |-> raw.mac,
                                  total |-> devices[raw.mac].total_encounters]]
    /\ UNCHANGED <<devices, current_mode, present_macs, linger_first_seen,
                   linger_alerted, alert_queue, published, dispatched, bg_thread,
                   stop_events, req, api, cycles_left, api_left, alert_lock, pub>>
    /\ UNCHANGED stream_vars
    /\ UNCHANGED whitelist_file
    /\ UNCHANGED tracker_vars
    /\ UNCHANGED notif
    /\ UNCHANGED recent

\* The write of the value read plus 1, and the rest of the loop body.
ThreadStoreTotal(t) ==
    LET th == threads[t]
        mac == th.raw.mac
        read == [devices EXCEPT ![mac].total_encounters = th.raw.total]
        r == IF th.mode = "HOME"
             THEN HomeRow(read, linger_first_seen, linger_alerted, [mac |-> mac], FALSE)
             ELSE RoamRow(read, linger_first_seen, linger_alerted, [mac |-> mac], FALSE)
    IN
    /\ th.pc = "store"
    /\ devices' = r.devices
    /\ linger_first_seen' = r.first_seen
    /\ linger_alerted' = r.alerted
    /\ Fire(r.alerts)
    /\ threads' = [threads EXCEPT ![t].pc = "rows", ![t].raw = NoRow]
    /\ UNCHANGED <<current_mode, present_macs, bg_thread, stop_events, req, api,
                   cycles_left, rows_left, api_left, alert_lock, pub>>
    /\ UNCHANGED stream_vars
    /\ UNCHANGED whitelist_file
    /\ UNCHANGED tracker_vars
    /\ UNCHANGED notif
    /\ UNCHANGED recent

NextCounters ==
    \/ \E mode \in {"HOME", "ROAM"} : StartModeSignal(mode)
    \/ StartModeLaunch
    \/ \E t \in DOMAIN threads : ThreadStart(t)
    \/ \E t \in DOMAIN threads : ThreadFetch(t, "files")
    \/ \E t \in DOMAIN threads, raw \in ScanRows :
          raw.mac \notin DOMAIN devices /\ ThreadRow(t, raw)
    \/ \E t \in DOMAIN threads : ThreadCreate(t)
    \/ \E t \in DOMAIN threads, raw \in ScanRows : ThreadLoadTotal(t, raw)
    \/ \E t \in DOMAIN threads : ThreadStoreTotal(t)
    \/ \E t \in DOMAIN threads : ThreadEndScan(t, <<>>, TRUE)

SpecCounters == Init /\ [][NextCounters]_vars

\* The same program started where `import notifications` may have failed.
InitNotif ==
    /\ devices = EmptyDict
    /\ current_mode = "IDLE"
    /\ present_macs = {}
    /\ linger_first_seen = EmptyDict
    /\ linger_alerted = {}
    /\ alert_queue = <<>>
    /\ published = 0
    /\ threads = <<>>
    /\ bg_thread = 0
    /\ stop_events = <<FALSE>>
    /\ req = [pc |-> "idle", mode |-> "HOME"]
    /\ api = IdleApi
    /\ cycles_left = MaxCycles
    /\ rows_left = MaxRows
    /\ api_left = MaxApiCalls
    /\ alert_lock = ""
    /\ pub = [p \in Publishers |-> "idle"]
    /\ StreamStart
    /\ whitelist_file = "unwritten"
    /\ TrackerStart
    /\ notif \in BOOLEAN
    /\ dispatched = <<>>
    /\ recent = NoAnswer

SpecNotif == InitNotif /\ [][Next]_vars

\* The same program on a disk where a save can fail.  The modes are the three
\* whose loop saves the registry (the WATCHLIST loop never calls
\* _save_whitelist), every query of a capture file succeeds, and the clock
\* stands still: no save reads it.
NextSave ==
    \/ \E mode \in {"HOME", "ROAM", "DOORBELL"} : StartModeSignal(mode)
    \/ StartModeLaunch
    \/ \E t \in DOMAIN threads : ThreadStart(t)
    \/ \E t \in DOMAIN threads, files \in {"files", "no_files"} : ThreadFetch(t, files)
    \/ \E t \in DOMAIN threads, raw \in ScanRows : ThreadRow(t, raw)
    \/ \E t \in DOMAIN threads : ThreadCreate(t)
    \/ \E t \in DOMAIN threads, saved \in BOOLEAN :
          \E order \in Orders(threads[t].prev_present \ threads[t].current_macs) \cup {<<>>} :
              ThreadEndScan(t, order, saved)
    \/ \E op \in {"label", "add", "remove"}, mac \in Macs, label \in Labels, group \in Groups,
          saved \in BOOLEAN :
          ApiCall(op, mac, label, group, saved)
    \/ \E saved \in BOOLEAN : ApiCreate(saved)

SpecSave == Init /\ [][NextSave]_vars

\* ------------------------------------------- the rows as the backend has them
\* A row of the devices table before _parse_kismet_db has looked at it: the
\* detail blob parses as JSON or does not, last_time (first_time alike) is a
\* timestamp, is NULL, or is a value datetime.fromtimestamp rejects, and
\* strongest_signal is NULL or text.  Numeric readings are those of Rows.
BackendRows ==
    [mac : Macs, device : {"json", "garbage"},
     last_time : {"valid", "missing", "invalid"}, signal : {"missing", "text"}]

\* The dict _parse_kismet_db appends for a row its try block gets through.
Normalised(row) ==
    IF row.signal = "missing" THEN [mac |-> row.mac]
    ELSE [mac |-> row.mac, signal |-> row.signal]

\* calculate_signal_trend raising TypeError: hist[-1] - hist[0] over the last
\* five readings with text at either end.
TrendRaises(hist) ==
    LET n == Len(hist)
        w == IF n > TrendWindow THEN SubSeq(hist, n - TrendWindow + 1, n) ELSE hist
    IN  Len(w) >= 2 /\ (w[1] = "text" \/ w[Len(w)] = "text")

\* One backend row from the query to the end of the loop body.  json.loads on
\* a garbage blob raises inside the per-row try of _parse_kismet_db and the row
\* is dropped.  An invalid timestamp raises in _update_profile (in DOORBELL
\* already in the age test) before anything is written; a text reading raises
\* in calculate_signal_trend after _update_profile and the home counter have
\* been written.  Nothing catches either: the exception leaves the mode
\* function and _target, and the thread ends.
ThreadBackendRow(t, row) ==
    LET th == threads[t]
        raw == Normalised(row)
        mac == row.mac
    IN
    /\ th.pc = "rows"
    /\ rows_left > 0
    /\ rows_left' = rows_left - 1
    /\ CASE row.device = "garbage" ->
              UNCHANGED <<devices, linger_first_seen, linger_alerted, threads,
                          alert_queue, published, dispatched>>
         [] row.device # "garbage" /\ th.mode = "WATCHLIST" ->
              /\ Fire(WatchlistRow(raw, th))
              /\ UNCHANGED <<devices, linger_first_seen, linger_alerted, threads>>
         [] row.device # "garbage" /\ th.mode # "WATCHLIST" /\ row.last_time = "invalid" ->
              /\ threads' = [threads EXCEPT ![t].pc = "done"]
              /\ UNCHANGED <<devices, linger_first_seen, linger_alerted,
                             alert_queue, published, dispatched>>
         [] OTHER ->
              IF mac \notin DOMAIN devices
              THEN /\ threads' = [threads EXCEPT ![t].pc = "create", ![t].raw = raw]
                   /\ UNCHANGED <<devices, linger_first_seen, linger_alerted,
                                  alert_queue, published, dispatched>>
              ELSE LET p1 == UpdateProfile(devices[mac], raw, th.mode)
                   IN  IF th.mode \in {"HOME", "ROAM"} /\ TrendRaises(p1.signal_history)
                       THEN /\ devices' = Store(devices, mac,
                                              IF th.mode = "HOME"
                                              THEN [p1 EXCEPT !.home_encounters = @ + 1]
                                              ELSE p1)
                            /\ threads' = [threads EXCEPT ![t].pc = "done"]
                            /\ UNCHANGED <<linger_first_seen, linger_alerted,
                                           alert_queue, published, dispatched>>
                       ELSE Apply(t, raw, FALSE)
    /\ UNCHANGED <<current_mode, present_macs, bg_thread, stop_events, req, api,
                   cycles_left, api_left, alert_lock, pub>>
    /\ UNCHANGED stream_vars
    /\ UNCHANGED whitelist_file
    /\ UNCHANGED tracker_vars
    /\ UNCHANGED notif
    /\ UNCHANGED recent

NextRows ==
    \/ \E mode \in Modes : StartModeSignal(mode)
    \/ StartModeLaunch
    \/ \E t \in DOMAIN threads : ThreadStart(t)
    \/ \E t \in DOMAIN threads : ThreadFetch(t, "files")
    \/ \E t \in DOMAIN threads, row \in BackendRows : ThreadBackendRow(t, row)
    \/ \E t \in DOMAIN threads : ThreadCreate(t)
    \/ \E t \in DOMAIN threads :
          \E order \in Orders(threads[t].prev_present \ threads[t].current_macs) \cup {<<>>} :
              ThreadEndScan(t, order, TRUE)

SpecRows == Init /\ [][NextRows]_vars

\* ------------------------------------------------ the alert bus on its own
\* Publishers that do nothing but call _push_alert, each statement of it a
\* step: the wait for _alert_lock, the append, the eviction and the release.
PubCall(p) ==
    /\ pub[p] = "idle"
    /\ published + Cardinality({q \in Publishers : pub[q] # "idle"}) < MaxPublished
    /\ pub' = [pub EXCEPT ![p] = "wait"]
    /\ UNCHANGED <<devices, current_mode, present_macs, linger_first_seen,
                   linger_alerted, alert_queue, published, dispatched, threads, bg_thread,
                   stop_events, req, api, cycles_left, rows_left, api_left, alert_lock>>
    /\ UNCHANGED stream_vars
    /\ UNCHANGED whitelist_file
    /\ UNCHANGED tracker_vars
    /\ UNCHANGED notif
    /\ UNCHANGED recent

PubAcquire(p) ==
    /\ pub[p] = "wait"
    /\ alert_lock = ""
    /\ alert_lock' = p
    /\ pub' = [pub EXCEPT ![p] = "append"]
    /\ UNCHANGED <<devices, current_mode, present_macs, linger_first_seen,
                   linger_alerted, alert_queue, published, dispatched, threads, bg_thread,
                   stop_events, req, api, cycles_left, rows_left, api_left>>
    /\ UNCHANGED stream_vars
    /\ UNCHANGED whitelist_file
    /\ UNCHANGED tracker_vars
    /\ UNCHANGED notif
    /\ UNCHANGED recent

PubAppend(p) ==
    /\ pub[p] = "append"
    /\ alert_queue' = Append(alert_queue, Stamped(Alert("INFO", "test", ""), published + 1))
    /\ published' = published + 1
    /\ pub' = [pub EXCEPT ![p] = "evict"]
    /\ UNCHANGED dispatched
    /\ UNCHANGED <<devices, current_mode, present_macs, linger_first_seen,
                   linger_alerted, threads, bg_thread, stop_events, req, api,
                   cycles_left, rows_left, api_left, alert_lock>>
    /\ UNCHANGED stream_vars
    /\ UNCHANGED whitelist_file
    /\ UNCHANGED tracker_vars
    /\ UNCHANGED notif
    /\ UNCHANGED recent

PubEvict(p) ==
    /\ pub[p] = "evict"
    /\ alert_queue' = Evict(alert_queue)
    /\ alert_lock' = ""
    /\ pub' = [pub EXCEPT ![p] = "idle"]
    /\ UNCHANGED <<devices, current_mode, present_macs, linger_first_seen,
                   linger_alerted, published, dispatched, threads, bg_thread, stop_events,
                   req, api, cycles_left, rows_left, api_left>>
    /\ UNCHANGED stream_vars
    /\ UNCHANGED whitelist_file
    /\ UNCHANGED tracker_vars
    /\ UNCHANGED notif
    /\ UNCHANGED recent

NextAlerts ==
    \/ \E p \in Publishers : PubCall(p)
    \/ \E p \in Publishers : PubAcquire(p)
    \/ \E p \in Publishers : PubAppend(p)
    \/ \E p \in Publishers : PubEvict(p)

SpecAlerts == Init /\ [][NextAlerts]_vars

\* ------------------------------------------------------ GET /api/alerts
\* get_recent_alerts(limit): _alert_queue[-limit:] as Python slices it.  A
\* start of -limit counts from the end when it is negative and from the front
\* otherwise, clamped to the list.
GetRecentAlerts(limit) ==
    LET n == Len(alert_queue)
        start == IF -limit < 0 THEN (IF n - limit > 0 THEN n - limit ELSE 0)
                 ELSE Min(-limit, n)
    IN  SubSeq(alert_queue, start + 1, n)

\* The limits a client asks for; without a limit parameter the default.
AlertLimits == 0..(MaxLogged + 1) \cup {DefaultAlertLimit}

\* The log after n alerts, none evicted yet.
LoggedAlerts(n) == [i \in 1..n |-> Stamped(Alert("INFO", "test", ""), i)]

InitRecent ==
    /\ devices = EmptyDict
    /\ current_mode = "IDLE"
    /\ present_macs = {}
    /\ linger_first_seen = EmptyDict
    /\ linger_alerted = {}
    /\ \E n \in 0..MaxLogged :
          /\ alert_queue = LoggedAlerts(n)
          /\ published = n
    /\ threads = <<>>
    /\ bg_thread = 0
    /\ stop_events = <<FALSE>>
    /\ req = [pc |-> "idle", mode |-> "HOME"]
    /\ api = IdleApi
    /\ cycles_left = MaxCycles
    /\ rows_left = MaxRows
    /\ api_left = MaxApiCalls
    /\ alert_lock = ""
    /\ pub = [p \in Publishers |-> "idle"]
    /\ StreamStart
    /\ whitelist_file = "unwritten"
    /\ TrackerStart
    /\ notif = TRUE
    /\ dispatched = <<>>
    /\ recent = NoAnswer

\* api_alerts: get_recent_alerts(limit), which reads the log under _alert_lock.
ApiAlerts(limit) ==
    /\ alert_lock = ""
    /\ recent' = [limit |-> limit, alerts |-> GetRecentAlerts(limit)]
    /\ UNCHANGED <<devices, current_mode, present_macs, linger_first_seen, linger_alerted,
                   alert_queue, published, dispatched, threads, bg_thread, stop_events,
                   req, api, cycles_left, rows_left, api_left, alert_lock, pub,
                   whitelist_file, notif>>
    /\ UNCHANGED stream_vars
    /\ UNCHANGED tracker_vars

NextRecent == \E limit \in AlertLimits : ApiAlerts(limit)

SpecRecent == InitRecent /\ [][NextRecent]_vars

\* --------------------------------------- observations applied one after another
\* A registry as _load_whitelist finds it: every device with a history of
\* `n` readings, oldest first.
LoadedHistory(n) == [i \in 1..n |-> -(30 + i)]

InitHist ==
    /\ \E n \in 0..HistoryCap :
          devices = [m \in Macs |->
                        [NewProfile EXCEPT !.signal_history = LoadedHistory(n),
                                           !.total_encounters = n]]
    /\ current_mode = "IDLE"
    /\ present_macs = {}
    /\ linger_first_seen = EmptyDict
    /\ linger_alerted = {}
    /\ alert_queue = <<>>
    /\ published = 0
    /\ threads = <<>>
    /\ bg_thread = 0
    /\ stop_events = <<FALSE>>
    /\ req = [pc |-> "idle", mode |-> "HOME"]
    /\ api = IdleApi
    /\ cycles_left = MaxCycles
    /\ rows_left = MaxRows
    /\ api_left = MaxApiCalls
    /\ alert_lock = ""
    /\ pub = [p \in Publishers |-> "idle"]
    /\ StreamStart
    /\ whitelist_file = "unwritten"
    /\ TrackerStart
    /\ notif = TRUE
    /\ dispatched = <<>>
    /\ recent = NoAnswer

\* _update_profile(raw, mode) on a device that has a profile.
HistObserve(mode, raw) ==
    /\ rows_left > 0
    /\ rows_left' = rows_left - 1
    /\ devices' = Store(devices, raw.mac, UpdateProfile(devices[raw.mac], raw, mode))
    /\ UNCHANGED <<current_mode, present_macs, linger_first_seen, linger_alerted,
                   alert_queue, published, dispatched, threads, bg_thread, stop_events, req,
                   api, cycles_left, api_left, alert_lock, pub>>
    /\ UNCHANGED stream_vars
    /\ UNCHANGED whitelist_file
    /\ UNCHANGED tracker_vars
    /\ UNCHANGED notif
    /\ UNCHANGED recent

NextHist == \E mode \in {"HOME", "ROAM", "DOORBELL"}, raw \in Rows : HistObserve(mode, raw)

SpecHist == InitHist /\ [][NextHist]_vars

\* ------------------------------------------------ the trend of a history
\* calculate_signal_trend(mac): "unknown" for a device without a profile.
SignalTrendOf(devs, mac) ==
    IF mac \notin DOMAIN devs THEN "unknown"
    ELSE CalculateSignalTrend(devs[mac].signal_history)

\* Readings 1, 5, 6 and 7 dBm apart.
TrendReadings == {-66, -65, -60, -59}
Histories == UNION {[1..n -> TrendReadings] : n \in 0..MaxHistory}

\* A registry that is empty or holds every device with some history.
InitTrend ==
    /\ devices \in {EmptyDict} \cup
                   {[m \in Macs |-> [NewProfile EXCEPT !.signal_history = h]] : h \in Histories}
    /\ current_mode = "IDLE"
    /\ present_macs = {}
    /\ linger_first_seen = EmptyDict
    /\ linger_alerted = {}
    /\ alert_queue = <<>>
    /\ published = 0
    /\ threads = <<>>
    /\ bg_thread = 0
    /\ stop_events = <<FALSE>>
    /\ req = [pc |-> "idle", mode |-> "HOME"]
    /\ api = IdleApi
    /\ cycles_left = MaxCycles
    /\ rows_left = MaxRows
    /\ api_left = MaxApiCalls
    /\ alert_lock = ""
    /\ pub = [p \in Publishers |-> "idle"]
    /\ StreamStart
    /\ whitelist_file = "unwritten"
    /\ TrackerStart
    /\ notif = TRUE
    /\ dispatched = <<>>
    /\ recent = NoAnswer

\* p.signal_trend = self.calculate_signal_trend(mac), as the HOME and ROAM
\* loops store it.
TrendCall(mac) ==
    /\ mac \in DOMAIN devices
    /\ devices' = [devices EXCEPT ![mac].signal_trend = SignalTrendOf(devices, mac)]
    /\ UNCHANGED <<current_mode, present_macs, linger_first_seen, linger_alerted,
                   alert_queue, published, dispatched, threads, bg_thread, stop_events,
                   req, api, cycles_left, rows_left, api_left, alert_lock, pub,
                   whitelist_file, notif, recent>>
    /\ UNCHANGED stream_vars
    /\ UNCHANGED tracker_vars

NextTrend == \E mac \in Macs : TrendCall(mac)

SpecTrend == InitTrend /\ [][NextTrend]_vars

\* ------------------------------------------- the manufacturer of a row
\* Two entries of KNOWN_OUI.
KNOWN_OUI == [oui \in {"a4:d1:8c", "00:18:60"} |->
                 IF oui = "a4:d1:8c" THEN "Apple" ELSE "Ring"]

\* Device addresses as the backend writes them: prefix (first 8 characters)
\* and the rest.
ManufMacs == [oui : {"A4:D1:8C", "00:18:60", "DE:AD:BE"}, nic : {"00:00:01"}]

\* str.lower() on the prefixes in use.
Lower(oui) ==
    CASE oui = "A4:D1:8C" -> "a4:d1:8c"
      [] oui = "DE:AD:BE" -> "de:ad:be"
      [] OTHER -> oui

\* KNOWN_OUI.get(mac[:8].lower(), "Unknown")
LookupManufacturer(mac) ==
    IF Lower(mac.oui) \in DOMAIN KNOWN_OUI THEN KNOWN_OUI[Lower(mac.oui)] ELSE "Unknown"

\* Backend rows: the address and the blob's kismet.device.base.manuf ("" when
\* the key is missing).
ManufRows == [mac : ManufMacs, manuf : {"", "Espressif", "Apple", "Unknown"}]

\* The record _parse_kismet_db builds: blob.get(manuf, "") or lookup(devmac).
ParseManufacturer(row) ==
    [mac |-> row.mac,
     manufacturer |-> IF row.manuf # "" THEN row.manuf ELSE LookupManufacturer(row.mac)]

\* _update_profile: raw.get("manufacturer") or lookup_manufacturer(mac).
RawManufacturer(raw) ==
    IF raw.manufacturer # "" THEN raw.manufacturer ELSE LookupManufacturer(raw.mac)

\* One row parsed and applied by _update_profile: a new profile takes the
\* manufacturer, an old one only while its own is empty or Unknown.
ManufRow(row) ==
    LET raw == ParseManufacturer(row)
        mac == raw.mac
        manufacturer == RawManufacturer(raw)
        p0 == IF mac \in DOMAIN devices THEN devices[mac]
              ELSE NewProfile @@ [manufacturer |-> manufacturer]
        p1 == [p0 EXCEPT !.total_encounters = @ + 1,
                         !.manufacturer = IF @ \in {"", "Unknown"} THEN manufacturer ELSE @]
    IN
    /\ rows_left > 0
    /\ rows_left' = rows_left - 1
    /\ devices' = Store(devices, mac, p1)
    /\ UNCHANGED <<current_mode, present_macs, linger_first_seen, linger_alerted,
                   alert_queue, published, dispatched, threads, bg_thread, stop_events,
                   req, api, cycles_left, api_left, alert_lock, pub,
                   whitelist_file, notif, recent>>
    /\ UNCHANGED stream_vars
    /\ UNCHANGED tracker_vars

NextManuf == \E row \in ManufRows : ManufRow(row)

SpecManuf == Init /\ [][NextManuf]_vars

\* ------------------------------------------------------ the alert stream
\* The subscribers whose q.put_nowait raises queue.Full.
Full(clients, boxes) == {s \in Range(clients) : Len(boxes[s]) >= MailboxCap}

\* A variant: the loop over _sse_clients left at the first queue.Full.
DeliverUntilFull(clients, boxes, payload) ==
    LET full == {i \in DOMAIN clients : clients[i] \in Full(clients, boxes)}
        served == {clients[i] : i \in {j \in DOMAIN clients : \A f \in full : j < f}}
    IN  [clients |-> clients,
         boxes |-> [s \in DOMAIN boxes |->
                      IF s \in served THEN Append(boxes[s], payload) ELSE boxes[s]]]

\* _alert_pusher under _sse_lock: put_nowait into every registered queue, then
\* the removal of the full ones.
Deliver(clients, boxes, payload) ==
    LET dead == Full(clients, boxes)
    IN  [clients |-> SelectSeq(clients, LAMBDA s : s \notin dead),
         boxes |-> [s \in DOMAIN boxes |->
                      IF s \in Range(clients) \ dead
                      THEN Append(boxes[s], payload) ELSE boxes[s]]]

\* fire_alert called by whichever thread has something to report.
StreamPublish ==
    /\ pub_left > 0
    /\ pub_left' = pub_left - 1
    /\ Fire(<<Alert("INFO", "test", "")>>)
    /\ UNCHANGED <<devices, current_mode, present_macs, linger_first_seen,
                   linger_alerted, threads, bg_thread, stop_events, req, api,
                   cycles_left, rows_left, api_left, alert_lock, pub,
                   sse_clients, sse_lock, mailbox, received, conn, pusher>>
    /\ UNCHANGED whitelist_file
    /\ UNCHANGED tracker_vars
    /\ UNCHANGED notif
    /\ UNCHANGED recent

\* while not _bg_stop_event.is_set(): the event is whatever the global names now.
PusherTest ==
    /\ pusher.pc = "test"
    /\ pusher' = [pusher EXCEPT !.pc = IF stop_events[Len(stop_events)] THEN "done" ELSE "poll"]
    /\ UNCHANGED <<devices, current_mode, present_macs, linger_first_seen,
                   linger_alerted, alert_queue, published, dispatched, threads, bg_thread,
                   stop_events, req, api, cycles_left, rows_left, api_left,
                   alert_lock, pub, sse_clients, sse_lock, mailbox, received, conn,
                   pub_left>>
    /\ UNCHANGED whitelist_file
    /\ UNCHANGED tracker_vars
    /\ UNCHANGED notif
    /\ UNCHANGED recent

\* alerts = get_recent_alerts(limit=200) and the comparison with last_count;
\* with nothing new the thread sleeps and is back at the loop test.
PusherPoll ==
    /\ pusher.pc = "poll"
    /\ LET alerts == GetRecentAlerts(AlertCap)
           new_alerts == SubSeq(alerts, pusher.last_count + 1, Len(alerts))
       IN  pusher' = IF Len(alerts) > pusher.last_count
                     THEN [pc |-> "lock", last_count |-> Len(alerts),
                           payload |-> new_alerts[Len(new_alerts)],
                           polled_at |-> published]
                     ELSE [pusher EXCEPT !.pc = "test", !.polled_at = published]
    /\ UNCHANGED <<devices, current_mode, present_macs, linger_first_seen,
                   linger_alerted, alert_queue, published, dispatched, threads, bg_thread,
                   stop_events, req, api, cycles_left, rows_left, api_left,
                   alert_lock, pub, sse_clients, sse_lock, mailbox, received, conn,
                   pub_left>>
    /\ UNCHANGED whitelist_file
    /\ UNCHANGED tracker_vars
    /\ UNCHANGED notif
    /\ UNCHANGED recent

\* with _sse_lock:
PusherAcquire ==
    /\ pusher.pc = "lock"
    /\ sse_lock = ""
    /\ sse_lock' = "pusher"
    /\ pusher' = [pusher EXCEPT !.pc = "deliver"]
    /\ UNCHANGED <<devices, current_mode, present_macs, linger_first_seen,
                   linger_alerted, alert_queue, published, dispatched, threads, bg_thread,
                   stop_events, req, api, cycles_left, rows_left, api_left,
                   alert_lock, pub, sse_clients, mailbox, received, conn, pub_left>>
    /\ UNCHANGED whitelist_file
    /\ UNCHANGED tracker_vars
    /\ UNCHANGED notif
    /\ UNCHANGED recent

\* The two loops under the lock, its release, and the sleep.
PusherDeliver ==
    /\ pusher.pc = "deliver"
    /\ LET d == Deliver(sse_clients, mailbox, pusher.payload)
       IN  /\ sse_clients' = d.clients
           /\ mailbox' = d.boxes
    /\ sse_lock' = ""
    /\ pusher' = [pusher EXCEPT !.pc = "test", !.payload = NoPayload]
    /\ UNCHANGED <<devices, current_mode, present_macs, linger_first_seen,
                   linger_alerted, alert_queue, published, dispatched, threads, bg_thread,
                   stop_events, req, api, cycles_left, rows_left, api_left,
                   alert_lock, pub, received, conn, pub_left>>
    /\ UNCHANGED whitelist_file
    /\ UNCHANGED tracker_vars
    /\ UNCHANGED notif
    /\ UNCHANGED recent

\* api_stream: q = queue.Queue(maxsize=50) and the entry into `with _sse_lock`.
\* A subscriber is one connection, with the queue made for it.
Connect(s) ==
    /\ conn[s].pc = "off"
    /\ sse_lock = ""
    /\ sse_lock' = s
    /\ conn' = [conn EXCEPT ![s].pc = "append"]
    /\ UNCHANGED <<devices, current_mode, present_macs, linger_first_seen,
                   linger_alerted, alert_queue, published, dispatched, threads, bg_thread,
                   stop_events, req, api, cycles_left, rows_left, api_left,
                   alert_lock, pub, sse_clients, mailbox, received, pusher, pub_left>>
    /\ UNCHANGED whitelist_file
    /\ UNCHANGED tracker_vars
    /\ UNCHANGED notif
    /\ UNCHANGED recent

\* _sse_clients.append(q) and the release of the lock; `since` remembers how
\* many alerts had been published by then.
Register(s) ==
    /\ conn[s].pc = "append"
    /\ sse_clients' = Append(sse_clients, s)
    /\ sse_lock' = ""
    /\ conn' = [conn EXCEPT ![s] = [pc |-> "on", since |-> published]]
    /\ UNCHANGED <<devices, current_mode, present_macs, linger_first_seen,
                   linger_alerted, alert_queue, published, dispatched, threads, bg_thread,
                   stop_events, req, api, cycles_left, rows_left, api_left,
                   alert_lock, pub, mailbox, received, pusher, pub_left>>
    /\ UNCHANGED whitelist_file
    /\ UNCHANGED tracker_vars
    /\ UNCHANGED notif
    /\ UNCHANGED recent

\* _generate: data = q.get(timeout=30) handing over a payload.
Read(s) ==
    /\ conn[s].pc = "on"
    /\ mailbox[s] # <<>>
    /\ received' = [received EXCEPT ![s] = Append(@, Head(mailbox[s]))]
    /\ mailbox' = [mailbox EXCEPT ![s] = Tail(@)]
    /\ UNCHANGED <<devices, current_mode, present_macs, linger_first_seen,
                   linger_alerted, alert_queue, published, dispatched, threads, bg_thread,
                   stop_events, req, api, cycles_left, rows_left, api_left,
                   alert_lock, pub, sse_clients, sse_lock, conn, pusher, pub_left>>
    /\ UNCHANGED whitelist_file
    /\ UNCHANGED tracker_vars
    /\ UNCHANGED notif
    /\ UNCHANGED recent

\* The client goes away: GeneratorExit, and the `finally` enters `with _sse_lock`.
Disconnect(s) ==
    /\ conn[s].pc = "on"
    /\ sse_lock = ""
    /\ sse_lock' = s
    /\ conn' = [conn EXCEPT ![s].pc = "remove"]
    /\ UNCHANGED <<devices, current_mode, present_macs, linger_first_seen,
                   linger_alerted, alert_queue, published, dispatched, threads, bg_thread,
                   stop_events, req, api, cycles_left, rows_left, api_left,
                   alert_lock, pub, sse_clients, mailbox, received, pusher, pub_left>>
    /\ UNCHANGED whitelist_file
    /\ UNCHANGED tracker_vars
    /\ UNCHANGED notif
    /\ UNCHANGED recent

\* if q in _sse_clients: _sse_clients.remove(q), and the release of the lock.
Unregister(s) ==
    /\ conn[s].pc = "remove"
    /\ sse_clients' = SelectSeq(sse_clients, LAMBDA c : c # s)
    /\ sse_lock' = ""
    /\ conn' = [conn EXCEPT ![s].pc = "closed"]
    /\ UNCHANGED <<devices, current_mode, present_macs, linger_first_seen,
                   linger_alerted, alert_queue, published, dispatched, threads, bg_thread,
                   stop_events, req, api, cycles_left, rows_left, api_left,
                   alert_lock, pub, mailbox, received, pusher, pub_left>>
    /\ UNCHANGED whitelist_file
    /\ UNCHANGED tracker_vars
    /\ UNCHANGED notif
    /\ UNCHANGED recent

\* The stream some time into a run: n alerts published and seen by the pusher.
\* Nobody has subscribed yet, or (n = 49) s1 subscribed before the first alert
\* and has read none of them.
InitStream ==
    /\ \E n \in {0, MailboxCap - 1, AlertCap - 1} :
          LET k == IF n = MailboxCap - 1 THEN n ELSE 0
          IN  /\ alert_queue = LoggedAlerts(n)
              /\ published = n
              /\ pusher = [pc |-> "test", last_count |-> n, payload |-> NoPayload,
                           polled_at |-> n]
              /\ sse_clients = IF k = 0 THEN <<>> ELSE <<"s1">>
              /\ mailbox = [s \in Subscribers |->
                              IF k # 0 /\ s = "s1"
                              THEN SubSeq(LoggedAlerts(n), n - k + 1, n) ELSE <<>>]
              /\ conn = [s \in Subscribers |->
                            IF k # 0 /\ s = "s1"
                            THEN [pc |-> "on", since |-> n - k]
                            ELSE [pc |-> "off", since |-> 0]]
    /\ received = [s \in Subscribers |-> <<>>]
    /\ sse_lock = ""
    /\ pub_left = MaxBurst
    /\ devices = EmptyDict
    /\ current_mode = "IDLE"
    /\ present_macs = {}
    /\ linger_first_seen = EmptyDict
    /\ linger_alerted = {}
    /\ threads = <<>>
    /\ bg_thread = 0
    /\ stop_events = <<FALSE>>
    /\ req = [pc |-> "idle", mode |-> "HOME"]
    /\ api = IdleApi
    /\ cycles_left = MaxCycles
    /\ rows_left = MaxRows
    /\ api_left = MaxApiCalls
    /\ alert_lock = ""
    /\ pub = [p \in Publishers |-> "idle"]
    /\ whitelist_file = "unwritten"
    /\ TrackerStart
    /\ notif = TRUE
    /\ dispatched = <<>>
    /\ recent = NoAnswer

NextStream ==
    \/ StartModeSignal("ROAM")
    \/ StartModeLaunch
    \/ StreamPublish
    \/ PusherTest
    \/ PusherPoll
    \/ PusherAcquire
    \/ PusherDeliver
    \/ \E s \in Subscribers : Connect(s)
    \/ \E s \in Subscribers : Register(s)
    \/ \E s \in Subscribers : Read(s)
    \/ \E s \in Subscribers : Disconnect(s)
    \/ \E s \in Subscribers : Unregister(s)

SpecStream == InitStream /\ [][NextStream]_vars

\* ------------------------------------------------------ the GPS correlator
TMacs == {"m1", "m2"}
\* Positions along a road, in quarter kilometres: haversine_km between two of
\* them is a quarter of Distance.
Places == {0, 1, 2, 7}
Distance(a, b) == IF a < b THEN b - a ELSE a - b
\* The spots a capture file of a scan puts its rows at, and the spots
\* add_checkpoint is called at.
ScanPlaces == {0, 2}
CheckpointPlaces == {0, 7}
\* A row of the devices table with coordinates.  last_time is a timestamp of
\* today, NULL, or a value datetime.fromtimestamp rejects.
RowsAt(places, times) == [mac : TMacs, place : places, last_time : times]
TrackerRows == RowsAt(ScanPlaces, {"today", "missing", "invalid"})
Batches == UNION {[1..n -> TrackerRows] : n \in 0..MaxBatch}
\* The macs the whitelist file tags HOME.
HomeSets == {{}, {"m2"}}
\* The limit the caller passes: the default, or int(request.args["limit"]).
Limits == {-1, 0, 1, DefaultLimit}

\* StalkerProfile(mac=..., last_seen=ts_last).
NewStalker(mac, ts) ==
    [mac |-> mac, locations_seen |-> <<>>, unique_location_count |-> 0,
     total_hits |-> 0, stalker_score |-> 0, last_seen |-> ts]

\* The position of mac in the profiles, 0 without a profile.
Find(profs, mac) ==
    IF \E i \in DOMAIN profs : profs[i].mac = mac
    THEN CHOOSE i \in DOMAIN profs : profs[i].mac = mac
    ELSE 0

\* haversine_km(lat, lon, nearest_cp.lat, nearest_cp.lon) <= 1.0 for the
\* checkpoint _nearest_checkpoint returns.
Near(place, cps) == \E cp \in cps : Distance(place, cp) <= AcceptRadius

\* A variant: _process_db without the test of the distance to the checkpoint.
SkippedHomeOnly(row, cps, skip) == row.mac \in skip

\* `continue` in _process_db: a home device, or no checkpoint within 1 km.
Skipped(row, cps, skip) == row.mac \in skip \/ ~Near(row.place, cps)

\* datetime.fromtimestamp(row["last_time"]) raising.
RowRaises(row, cps, skip) == ~Skipped(row, cps, skip) /\ row.last_time = "invalid"

\* ts_last: the ISO text of last_time, "" for NULL.
TsLast(row) == IF row.last_time = "missing" THEN "" ELSE row.last_time

\* A variant: _is_new_location taking only the very same coordinates for a revisit.
IsNewLocationExact(p, place) == place \notin Range(p.locations_seen)

\* _is_new_location: no recorded location of the device within 0.5 km.
IsNewLocation(p, place) ==
    \A loc \in Range(p.locations_seen) : ~(Distance(place, loc) < min_location_separation_km)

\* The body of the row loop of _process_db for a row that gets through.
ProcessRow(profs, row) ==
    LET ts == TsLast(row)
        ps == IF Find(profs, row.mac) = 0 THEN Append(profs, NewStalker(row.mac, ts))
              ELSE profs
        i == Find(ps, row.mac)
        p1 == [ps[i] EXCEPT !.total_hits = @ + 1, !.last_seen = ts]
        p2 == IF IsNewLocation(p1, row.place)
              THEN [p1 EXCEPT !.locations_seen = Append(@, row.place),
                              !.unique_location_count = Len(p1.locations_seen) + 1]
              ELSE p1
    IN  [ps EXCEPT ![i] = p2]

\* _process_db: the row loop inside one try block; the first row that raises
\* ends the loop, the except clause prints and the function returns.
RECURSIVE ProcessDb(_, _, _, _)
ProcessDb(profs, batch, cps, skip) ==
    IF batch = <<>> THEN profs
    ELSE LET row == Head(batch)
         IN  IF Skipped(row, cps, skip) THEN ProcessDb(profs, Tail(batch), cps, skip)
             ELSE IF RowRaises(row, cps, skip) THEN profs
             ELSE ProcessDb(ProcessRow(profs, row), Tail(batch), cps, skip)

\* 1000 * math.log(n) for the hit counts the bounds allow.
LnMilli == <<0, 693, 1099, 1386, 1609, 1792, 1946, 2079, 2197, 2303, 2398, 2485, 2565>>

\* Twice the recency weight: 1 / (1 + days_ago) for a timestamp of today, 0.5
\* when datetime.fromisoformat(p.last_seen) raises on "".
RecencyHalves(last_seen) == IF last_seen = "" THEN 1 ELSE 2

\* The score _compute_scores stores for p, in two-thousandths.
StalkerScore(p) ==
    IF p.unique_location_count < 2 THEN 0
    ELSE p.unique_location_count * p.unique_location_count
            * LnMilli[p.total_hits + 1] * RecencyHalves(p.last_seen)

ComputeScores(profs) ==
    [i \in DOMAIN profs |-> [profs[i] EXCEPT !.stalker_score = StalkerScore(profs[i])]]

\* sorted(candidates, key=score, reverse=True): a stable sort, ties in the
\* order of the input.
RECURSIVE InsertByScore(_, _)
InsertByScore(sorted, p) ==
    IF sorted = <<>> THEN <<p>>
    ELSE IF Head(sorted).stalker_score >= p.stalker_score
         THEN <<Head(sorted)>> \o InsertByScore(Tail(sorted), p)
         ELSE <<p>> \o sorted

RECURSIVE SortedByScore(_)
SortedByScore(ps) ==
    IF ps = <<>> THEN <<>>
    ELSE InsertByScore(SortedByScore(SubSeq(ps, 1, Len(ps) - 1)), ps[Len(ps)])

\* seq[:limit] as Python slices: a negative limit counts from the end.
Slice(seq, limit) ==
    LET n == IF limit >= 0 THEN Min(limit, Len(seq))
             ELSE IF Len(seq) + limit > 0 THEN Len(seq) + limit ELSE 0
    IN  SubSeq(seq, 1, n)

GetRankedStalkers(profs, min_locations, limit) ==
    Slice(SortedByScore(SelectSeq(profs, LAMBDA p : p.unique_location_count >= min_locations)),
          limit)

\* The profiles after scan_and_correlate: untouched without a checkpoint.
Correlated(batch, home_macs) ==
    IF our_checkpoints = {} THEN profiles
    ELSE ComputeScores(ProcessDb(profiles, batch, our_checkpoints, home_macs))

\* add_checkpoint(lat, lon, label).
AddCheckpoint(place) ==
    /\ place \notin our_checkpoints
    /\ our_checkpoints' = our_checkpoints \cup {place}
    /\ UNCHANGED <<profiles, ranked, scans_left>>
    /\ UNCHANGED <<devices, current_mode, present_macs, linger_first_seen,
                   linger_alerted, alert_queue, published, dispatched, threads, bg_thread,
                   stop_events, req, api, cycles_left, rows_left, api_left,
                   alert_lock, pub, whitelist_file, notif, recent>>
    /\ UNCHANGED stream_vars

\* scan_and_correlate() over a capture file holding `batch`, as the command
\* line runs it: the ranking it returns is get_ranked_stalkers().
ScanAndCorrelate(batch, home_macs) ==
    /\ scans_left > 0
    /\ scans_left' = scans_left - 1
    /\ profiles' = Correlated(batch, home_macs)
    /\ ranked' = [limit |-> DefaultLimit,
                  list |-> IF our_checkpoints = {} THEN <<>>
                           ELSE GetRankedStalkers(profiles', DefaultMinLocations,
                                                  DefaultLimit)]
    /\ UNCHANGED our_checkpoints
    /\ UNCHANGED <<devices, current_mode, present_macs, linger_first_seen,
                   linger_alerted, alert_queue, published, dispatched, threads, bg_thread,
                   stop_events, req, api, cycles_left, rows_left, api_left,
                   alert_lock, pub, whitelist_file, notif, recent>>
    /\ UNCHANGED stream_vars

\* GET /api/stalkers?limit=...: scan_and_correlate, then
\* get_ranked_stalkers(limit=limit) for the response.
ApiStalkers(batch, home_macs, limit) ==
    /\ scans_left > 0
    /\ scans_left' = scans_left - 1
    /\ profiles' = Correlated(batch, home_macs)
    /\ ranked' = [limit |-> limit,
                  list |-> GetRankedStalkers(profiles', DefaultMinLocations, limit)]
    /\ UNCHANGED our_checkpoints
    /\ UNCHANGED <<devices, current_mode, present_macs, linger_first_seen,
                   linger_alerted, alert_queue, published, dispatched, threads, bg_thread,
                   stop_events, req, api, cycles_left, rows_left, api_left,
                   alert_lock, pub, whitelist_file, notif, recent>>
    /\ UNCHANGED stream_vars

NextTracker ==
    \/ \E place \in CheckpointPlaces : AddCheckpoint(place)
    \/ \E batch \in Batches, home_macs \in HomeSets : ScanAndCorrelate(batch, home_macs)
    \/ \E batch \in Batches, home_macs \in HomeSets, limit \in Limits :
          ApiStalkers(batch, home_macs, limit)

SpecTracker == Init /\ [][NextTracker]_vars

\* The correlator fed with capture files whose rows lie anywhere along the
\* road, every one with a timestamp of today, no device tagged HOME.
SightingRows == RowsAt(Places, {"today"})
SightingBatches == UNION {[1..n -> SightingRows] : n \in 1..MaxBatch}

NextSightings ==
    \/ \E place \in CheckpointPlaces : AddCheckpoint(place)
    \/ \E batch \in SightingBatches : ScanAndCorrelate(batch, {})

SpecSightings == Init /\ [][NextSightings]_vars

\* ===================================================================== claims
CountAlerts(kind, mac) ==
    Cardinality({i \in DOMAIN alert_queue :
                    alert_queue[i].kind = kind /\ alert_queue[i].mac = mac})

TagsOf(m) == Range(devices[m].modes_seen_in)

\* A step in which thread t runs the body of its row loop.
RowStepOf(t) ==
    \/ \E raw \in ScanRows : ThreadRow(t, raw) /\ raw.mac \in DOMAIN devices
    \/ ThreadCreate(t)

\* A step in which an observation of m is applied (_update_profile runs).
Observes(m) ==
    \E t \in DOMAIN threads :
        /\ threads[t].mode # "WATCHLIST"
        /\ \/ ThreadRow(t, [mac |-> m]) /\ m \in DOMAIN devices
           \/ ThreadCreate(t) /\ threads[t].raw.mac = m

(* C1: at most one mode task is executing at any time: startMode never starts
   the requested task while the previously started task is still running. *)
AtMostOneModeTask ==
    Cardinality({t \in DOMAIN threads : Alive(t)}) <= 1

(* C2: once the newly started mode task has executed its first step, the
   previously running mode task performs no further profile mutation. *)
NoWritesFromPreviousTask ==
    [][\A t \in DOMAIN threads :
          (\E u \in DOMAIN threads : u > t /\ threads[u].pc # "start")
              => ~(RowStepOf(t) /\ devices' # devices)]_vars

(* C3: a ROAM or DOORBELL task whose cancellation has been signalled by a later
   startMode finishes the scan in progress and starts no further iteration. *)
CancelledLoopStops ==
    [][\A t \in DOMAIN threads :
          (Continuous(t) /\ threads[t].scanned /\ stop_events[EventOf(t)])
              => ~(\E files \in Fetches : ThreadFetch(t, files))]_vars

TotalEncounters(m) == IF m \in DOMAIN devices THEN devices[m].total_encounters ELSE 0

(* C4: every applied observation of a device increments its total_encounters
   by exactly 1 and nothing else changes it, so that after N applied
   observations of a device that had no profile the counter is N. *)
EncountersCountObservations ==
    [][\A m \in Macs :
          TotalEncounters(m)' = TotalEncounters(m) + (IF Observes(m) THEN 1 ELSE 0)]_vars

\* Every profile's history is within capacity.
HistoryBounded ==
    \A m \in DOMAIN devices : Len(devices[m].signal_history) <= HistoryCap

\* What an observation does to the history it is applied to.
HistoryStep ==
    \A mode \in {"HOME", "ROAM", "DOORBELL"}, raw \in Rows :
        HistObserve(mode, raw) =>
            LET h == devices[raw.mac].signal_history
                h2 == devices'[raw.mac].signal_history
            IN  IF ~HasSignal(raw) THEN h2 = h
                ELSE IF Len(h) = HistoryCap THEN h2 = Tail(h) \o <<raw.signal>>
                ELSE h2 = h \o <<raw.signal>>

(* C5: a profile's signal_history never exceeds 20 readings; a reading appended
   to a full history drops the oldest and keeps the others in order, newest
   last; an observation without a signal leaves the history unchanged. *)
SignalHistoryCapped == []HistoryBounded /\ [][HistoryStep]_vars

\* A full history whose oldest loaded reading has been evicted by a new one.
SignalHistoryEvicted ==
    \E m \in DOMAIN devices :
        LET h == devices[m].signal_history
        IN  /\ Len(h) = HistoryCap
            /\ h[HistoryCap] \in Signals
            /\ h[1] = LoadedHistory(HistoryCap)[2]

(* C6: whenever the log can be read (the lock is free) it holds exactly the
   min(n, 200) most recently appended of the n alerts published, in append
   order. *)
AlertLogHoldsLatest ==
    alert_lock = "" =>
        /\ Len(alert_queue) = Min(published, AlertCap)
        /\ \A i \in DOMAIN alert_queue :
              alert_queue[i].timestamp = published - Len(alert_queue) + i

\* More than 200 alerts have been published by both publishers taking turns.
AlertLogEvicted ==
    /\ alert_lock = ""
    /\ published > AlertCap
    /\ Len(alert_queue) = AlertCap
    /\ \E p \in Publishers : pub[p] = "wait"

(* C7: a profile whose tags hold both a stationary context (HOME or DOORBELL)
   and ROAM has its cross-context flag set, and exactly one CRITICAL
   cross-context alert has been published for it. *)
CrossContextFlagged ==
    \A m \in DOMAIN devices :
        ("ROAM" \in TagsOf(m) /\ ("HOME" \in TagsOf(m) \/ "DOORBELL" \in TagsOf(m)))
            => (devices[m].cross_mode_detected /\ CountAlerts("cross_mode", m) = 1)

(* C8: the cross-context flag of a profile never goes from true back to false,
   and the cross-context alert is published at most once for it. *)
CrossFlagSticky ==
    [][\A m \in DOMAIN devices :
          /\ devices[m].cross_mode_detected => devices'[m].cross_mode_detected
          /\ CountAlerts("cross_mode", m)' <= 1]_vars

\* A step in which _check_linger runs for m and finds it unlabeled.
LingerCheck(m) ==
    /\ \E t \in DOMAIN threads :
          /\ threads[t].mode \in {"HOME", "DOORBELL"}
          /\ \/ ThreadRow(t, [mac |-> m]) /\ m \in DOMAIN devices
             \/ ThreadCreate(t) /\ threads[t].raw.mac = m
    /\ devices'[m].label = ""

LingerDue(m) ==
    /\ m \in DOMAIN linger_first_seen
    /\ linger_first_seen[m] >= unknown_ssid_linger_minutes
    /\ m \notin linger_alerted

LingerStep ==
    \A m \in Macs :
        LET fired == CountAlerts("linger", m)' - CountAlerts("linger", m)
        IN  /\ fired \in {0, 1}
            /\ fired = 1 <=> (LingerCheck(m) /\ LingerDue(m))
            /\ fired = 1 => m \in linger_alerted'
            /\ (m \in linger_alerted /\ m \notin linger_alerted')
                   => m \notin DOMAIN linger_first_seen'

(* C9: the linger WARNING of an unlabeled device is published exactly once per
   presence streak: by the first linger check at which the time since the
   streak began is at least the threshold, and not again until the streak has
   been reset. *)
LingerOncePerStreak ==
    [](linger_alerted \subseteq DOMAIN linger_first_seen) /\ [][LingerStep]_vars

\* The linger alert has been published and a later linger check has left it at one.
LingerAlerted ==
    \E m \in Macs :
        /\ CountAlerts("linger", m) = 1
        /\ m \in linger_alerted
        /\ rows_left = 0

\* A step in which thread t ends a DOORBELL scan.
DoorbellScanEnds(t) ==
    /\ threads[t].mode = "DOORBELL"
    /\ \E order \in Orders(threads[t].prev_present \ threads[t].current_macs) :
          ThreadEndScan(t, order, TRUE)

\* A step in which a linger-checking mode processes the row of a device that
\* already has a profile with a non-empty label.
LabeledRow(t, m) ==
    /\ threads[t].mode \in {"HOME", "DOORBELL"}
    /\ m \in DOMAIN devices
    /\ devices[m].label # ""
    /\ ThreadRow(t, [mac |-> m])

(* C10: in HOME and DOORBELL the linger state of a device (first-seen time and
   alerted flag) is cleared by the scan that finds the device labeled, and by
   the scan whose observed set does not contain the device. *)
LingerClearedByLabelOrAbsence ==
    [][\A t \in DOMAIN threads :
          /\ \A m \in Macs :
                LabeledRow(t, m) =>
                    (m \notin DOMAIN linger_first_seen' /\ m \notin linger_alerted')
          /\ DoorbellScanEnds(t) =>
                \A m \in DOMAIN linger_first_seen' : m \in threads[t].current_macs]_vars

\* The CRITICAL watchlist alerts published for m, whichever mode published them.
WatchlistAlerts(m) ==
    Cardinality({i \in DOMAIN alert_queue :
                    /\ alert_queue[i].level = "CRITICAL"
                    /\ alert_queue[i].kind \in {"watchlist_hit", "watchlist_arrived", "watchlisted"}
                    /\ alert_queue[i].mac = m})

\* A step in which a mode thread processes a row of m whose profile is watchlisted.
WatchlistedRow(m) ==
    /\ m \in DOMAIN devices
    /\ devices[m].is_watchlisted
    /\ \E t \in DOMAIN threads : ThreadRow(t, [mac |-> m])

(* C11: in every mode, each processed observation of a device whose profile is
   watchlisted publishes one CRITICAL watchlist alert. *)
WatchlistAlertPerSighting ==
    [][\A m \in Macs :
          WatchlistedRow(m) => WatchlistAlerts(m)' = WatchlistAlerts(m) + 1]_vars

\* Everything ever put into the mailbox of s, oldest first.
Got(s) == received[s] \o mailbox[s]

\* How often the alert with timestamp ts was put into the mailbox of s.
TimesGot(s, ts) == Cardinality({i \in DOMAIN Got(s) : Got(s)[i].timestamp = ts})

\* The pusher has completed a pass of its loop since the last publication.
PusherCaughtUp == pusher.pc = "test" /\ pusher.polled_at = published

(* C12: every alert published while a subscriber is registered with room in
   its mailbox is put into that mailbox exactly once and in publication order,
   also when several alerts are published between two polls of the pusher. *)
EveryAlertDelivered ==
    PusherCaughtUp =>
        \A s \in Range(sse_clients) :
            /\ \A ts \in (conn[s].since + 1)..published : TimesGot(s, ts) = 1
            /\ \A i, j \in DOMAIN Got(s) :
                  i < j => Got(s)[i].timestamp < Got(s)[j].timestamp

(* C13: once the log holds its 200 entries, an alert published after that has
   reached every registered subscriber by the time the pusher has completed
   its next pass. *)
DeliveredPastCapacity ==
    (PusherCaughtUp /\ published > AlertCap) =>
        \A s \in Range(sse_clients) :
            conn[s].since < published => TimesGot(s, published) >= 1

(* C14: startMode calls never terminate the task that delivers alerts to the
   subscribers. *)
PusherNeverStops == pusher.pc # "done"

\* What a delivery pass, and any other step, may do to the registry and the mailboxes.
DropStep ==
    /\ PusherDeliver =>
          \A s \in Subscribers :
              IF s \notin Range(sse_clients)
              THEN mailbox'[s] = mailbox[s] /\ s \notin Range(sse_clients')
              ELSE IF Len(mailbox[s]) = MailboxCap
              THEN mailbox'[s] = mailbox[s] /\ s \notin Range(sse_clients')
              ELSE /\ mailbox'[s] = Append(mailbox[s], pusher.payload)
                   /\ s \in Range(sse_clients')
    /\ \A s \in Subscribers :
          /\ s \notin Range(sse_clients) => Len(mailbox'[s]) <= Len(mailbox[s])
          /\ (s \in Range(sse_clients') /\ s \notin Range(sse_clients))
                 => conn[s].pc = "append"
    /\ sse_clients' # sse_clients => (sse_lock # "" /\ sse_lock' = "")

(* C15: delivery to a subscriber whose mailbox holds 50 payloads does not
   block: that subscriber is removed from the registry, every other registered
   subscriber gets the payload, a subscriber that is not registered is never
   delivered to, and the registry changes only under its lock. *)
FullSubscriberDropped ==
    /\ [](\A s \in Subscribers : Len(mailbox[s]) <= MailboxCap)
    /\ [](pusher.pc = "deliver" => ENABLED PusherDeliver)
    /\ [][DropStep]_vars

\* A stalled subscriber has been dropped by the pass that delivered the newest
\* alert to another one.
SubscriberWasDropped ==
    \E s, u \in Subscribers :
        /\ conn[s].pc = "on"
        /\ s \notin Range(sse_clients)
        /\ Len(mailbox[s]) = MailboxCap
        /\ u \in Range(sse_clients)
        /\ TimesGot(u, published) = 1

\* The WARNING alerts of failed saves published so far.
SaveFailures ==
    Cardinality({i \in DOMAIN alert_queue :
                    alert_queue[i].level = "WARNING" /\ alert_queue[i].kind = "save_failed"})

\* A step in which a scanning mode ends a cycle, its save having the outcome `saved`.
ScanEndStep(t, saved) ==
    /\ threads[t].mode # "WATCHLIST"
    /\ \E order \in Orders(threads[t].prev_present \ threads[t].current_macs) \cup {<<>>} :
          ThreadEndScan(t, order, saved)

\* A step in which label / watchlistAdd / watchlistRemove writes to the profile
\* of mac and saves with the outcome `saved`.
MutationStep(op, mac, label, group, saved) ==
    \/ mac \in DOMAIN devices /\ ApiCall(op, mac, label, group, saved)
    \/ /\ ApiCreate(saved)
       /\ api = [pc |-> "create", op |-> op, mac |-> mac, label |-> label, group |-> group]

\* The writes of the operation are in the registry after the step, and nothing else is.
MutationKept(op, mac, label, group) ==
    /\ DOMAIN devices' = DOMAIN devices \cup {mac}
    /\ \A m \in DOMAIN devices \ {mac} : devices'[m] = devices[m]
    /\ op = "label" => devices'[mac].label = label /\ devices'[mac].group = group
    /\ op = "add" => devices'[mac].is_watchlisted /\ devices'[mac].group = "watchlist"
    /\ op = "remove" => ~devices'[mac].is_watchlisted
    /\ api'.pc = "idle"
    /\ alert_queue'[Len(alert_queue')].kind \in {"labeled", "watchlist_added", "watchlist_removed"}
    /\ alert_queue'[Len(alert_queue')].mac = mac

FailedSaveStep ==
    /\ \A t \in DOMAIN threads :
          /\ ScanEndStep(t, FALSE) =>
                /\ SaveFailures' = SaveFailures + 1
                /\ whitelist_file' = "failed"
                /\ devices' = devices
                /\ threads'[t].pc = IF Continuous(t) THEN "fetch" ELSE "done"
          /\ ScanEndStep(t, TRUE) =>
                (SaveFailures' = SaveFailures /\ whitelist_file' = "written")
    /\ \A op \in {"label", "add", "remove"}, mac \in Macs, label \in Labels, group \in Groups :
          /\ MutationStep(op, mac, label, group, FALSE) =>
                /\ SaveFailures' = SaveFailures + 1
                /\ whitelist_file' = "failed"
                /\ MutationKept(op, mac, label, group)
          /\ MutationStep(op, mac, label, group, TRUE) =>
                /\ SaveFailures' = SaveFailures
                /\ whitelist_file' = "written"
                /\ MutationKept(op, mac, label, group)

(* C16: a failed save of the registry publishes a WARNING, changes and loses no
   in-memory profile, lets the calling operation (mode cycle, label,
   watchlistAdd, watchlistRemove) complete as it does after a successful save,
   and the next cycle or mutation saves again. *)
FailedSaveTolerated == [][FailedSaveStep]_vars

\* A save has succeeded after an earlier one had failed.
SavedAfterFailure == whitelist_file = "written" /\ SaveFailures >= 1

\* The WARNING alerts in the log.
Warnings ==
    Cardinality({i \in DOMAIN alert_queue : alert_queue[i].level = "WARNING"})

\* A step in which the scan of t finds no capture file or cannot query one.
BackendUnavailable(t) ==
    \E files \in {"no_files", "query_failed"} : ThreadFetch(t, files)

(* C17: in every mode a scan cycle that finds no capture file, or whose query
   fails, publishes a WARNING, applies no observation in that cycle, and leaves
   the task of a looping mode running. *)
UnavailableBackendWarns ==
    [][\A t \in DOMAIN threads :
          BackendUnavailable(t) =>
              /\ Warnings' = Warnings + 1
              /\ threads'[t].pc # "rows"
              /\ devices' = devices
              /\ Continuous(t) => threads'[t].pc # "done"]_vars

(* C18: no backend row, whatever its detail blob, its timestamps or its signal
   hold, ends a running mode task: after the row the task is still in its
   cycle. *)
NoRowEndsTheTask ==
    [][\A t \in DOMAIN threads : \A row \in BackendRows :
          ThreadBackendRow(t, row) => threads'[t].pc # "done"]_vars

\* The hits recorded for mac.
HitsOf(profs, mac) == IF Find(profs, mac) = 0 THEN 0 ELSE profs[Find(profs, mac)].total_hits

\* The rows of the batch about mac that are well-formed and that no filter of
\* _process_db drops.
GoodRows(batch, mac, home_macs) ==
    {i \in DOMAIN batch : /\ batch[i].mac = mac
                          /\ batch[i].last_time # "invalid"
                          /\ ~Skipped(batch[i], our_checkpoints, home_macs)}

(* C19: within one batch of the GPS correlator a malformed row is skipped on
   its own: every well-formed row of the batch, before and after it, is
   recorded as a hit of its device. *)
MalformedRowSkippedAlone ==
    [][\A batch \in Batches, home_macs \in HomeSets :
          ScanAndCorrelate(batch, home_macs) /\ our_checkpoints # {} =>
              \A mac \in TMacs :
                  HitsOf(profiles', mac) =
                      HitsOf(profiles, mac) + Cardinality(GoodRows(batch, mac, home_macs))]_vars

(* C20: after every scan_and_correlate a profile with fewer than 2 distinct
   location sightings has score 0 whatever its hits, and the list
   get_ranked_stalkers returned holds no such profile, is in non-increasing
   score order and has at most `limit` entries (none for a limit below 0). *)
RankingSound ==
    /\ \A i \in DOMAIN profiles :
          Len(profiles[i].locations_seen) < 2 => profiles[i].stalker_score = 0
    /\ \A i \in DOMAIN ranked.list : Len(ranked.list[i].locations_seen) >= 2
    /\ \A i, j \in DOMAIN ranked.list :
          i < j => ranked.list[i].stalker_score >= ranked.list[j].stalker_score
    /\ Len(ranked.list) <= (IF ranked.limit > 0 THEN ranked.limit ELSE 0)

\* The sightings stored for mac.
SightingsOf(profs, mac) ==
    IF Find(profs, mac) = 0 THEN <<>> ELSE profs[Find(profs, mac)].locations_seen

\* Stored sightings of one device are pairwise at least 0.5 km apart and
\* unique_location_count counts them.
SightingsSeparated ==
    \A i \in DOMAIN profiles :
        LET locs == profiles[i].locations_seen
        IN  /\ \A j, k \in DOMAIN locs :
                  j # k => Distance(locs[j], locs[k]) >= min_location_separation_km
            /\ profiles[i].unique_location_count = Len(locs)

\* A scan of one row closer than 0.5 km to a stored sighting of its device
\* stores no sighting.
RevisitStep ==
    \A row \in SightingRows :
        /\ ScanAndCorrelate(<<row>>, {})
        /\ \E loc \in Range(SightingsOf(profiles, row.mac)) :
              Distance(row.place, loc) < min_location_separation_km
        => SightingsOf(profiles', row.mac) = SightingsOf(profiles, row.mac)

(* C21: from an empty tracker, two sightings stored for one device are always
   at least 0.5 km apart and unique_location_count is their number; an
   observation closer than that to a stored sighting adds none. *)
SightingsStayApart == []SightingsSeparated /\ [][RevisitStep]_vars

\* A device has two sightings and a hit near one of them that was not stored.
RevisitNotStored ==
    \E i \in DOMAIN profiles :
        /\ Len(profiles[i].locations_seen) = 2
        /\ profiles[i].total_hits > 2

\* The batch without the rows whose nearest checkpoint is farther than 1 km.
WithoutFar(batch) == SelectSeq(batch, LAMBDA row : Near(row.place, our_checkpoints))

\* What the tracker holds about its devices, the scores aside.
Recorded(profs) ==
    [i \in DOMAIN profs |-> [profs[i] EXCEPT !.stalker_score = 0]]

(* C22: an observation whose nearest checkpoint is farther than 1 km changes
   nothing in the tracker: the scan leaves the profiles as the same scan
   without that row leaves them, and as they were when every row is that far.
   With no checkpoint scan_and_correlate returns an empty ranking and changes
   no state. *)
FarObservationIgnored ==
    [][\A batch \in SightingBatches :
          ScanAndCorrelate(batch, {}) =>
              /\ our_checkpoints # {} =>
                    profiles' = ComputeScores(ProcessDb(profiles, WithoutFar(batch),
                                                         our_checkpoints, {}))
              /\ WithoutFar(batch) = <<>> => Recorded(profiles') = Recorded(profiles)
              /\ our_checkpoints = {} =>
                    /\ ranked'.list = <<>>
                    /\ profiles' = profiles
                    /\ our_checkpoints' = our_checkpoints]_vars

\* Scans near a checkpoint have read rows, and none of them was taken.
FarRowsDropped ==
    /\ our_checkpoints # {}
    /\ scans_left = 0
    /\ profiles = <<>>

\* The rows of the batch about mac whose nearest checkpoint is within 1 km.
NearRows(batch, mac) ==
    {i \in DOMAIN batch : batch[i].mac = mac /\ Near(batch[i].place, our_checkpoints)}

(* C23: every observation with coordinates whose nearest checkpoint is within
   1 km is a hit of its device, whatever the device, one the mode controller's
   registry knows included: a scan of well-formed rows raises total_hits of
   each device by the number of its rows within 1 km. *)
NearObservationIsHit ==
    [][\A batch \in Batches, home_macs \in HomeSets :
          /\ ScanAndCorrelate(batch, home_macs)
          /\ our_checkpoints # {}
          /\ \A i \in DOMAIN batch : batch[i].last_time # "invalid"
          => \A mac \in TMacs :
                HitsOf(profiles', mac) =
                    HitsOf(profiles, mac) + Cardinality(NearRows(batch, mac))]_vars

\* The alerts the step has published, and the ones it has handed to the
\* notifications module.
NewAlerts ==
    SubSeq(alert_queue', Len(alert_queue') - (published' - published) + 1, Len(alert_queue'))
NewDispatched == SubSeq(dispatched', Len(dispatched) + 1, Len(dispatched'))

\* The alert sources the notification contract names: linger, cross-context,
\* watchlist, approaching, backend and persistence warnings.
AlertSources ==
    {"linger", "cross_mode", "watchlist_hit", "watchlist_arrived", "watchlisted",
     "approaching", "no_files", "db_error", "save_failed"}

(* C24: with the notification collaborator present, every alert that is
   published (linger, cross-context, watchlist, approaching, backend and
   persistence warnings) is handed to it with its level. *)
EveryAlertDispatched ==
    [][notif =>
          \A i \in DOMAIN NewAlerts :
              NewAlerts[i].kind \in AlertSources =>
                  \E j \in DOMAIN NewDispatched :
                      /\ NewDispatched[j].kind = NewAlerts[i].kind
                      /\ NewDispatched[j].level = NewAlerts[i].level
                      /\ NewDispatched[j].mac = NewAlerts[i].mac]_vars

\* What the loop body of thread t's mode makes of `raw`.
RowOutcome(t, raw, create) ==
    LET th == threads[t]
    IN  CASE th.mode = "HOME" ->
                 HomeRow(devices, linger_first_seen, linger_alerted, raw, create)
          [] th.mode = "ROAM" ->
                 RoamRow(devices, linger_first_seen, linger_alerted, raw, create)
          [] OTHER ->
                 DoorbellRow(devices, linger_first_seen, linger_alerted, raw, create, th)

\* A step in which thread t runs the loop body on `raw`.
BodyStep(t, raw, create) ==
    /\ threads[t].mode # "WATCHLIST"
    /\ IF create THEN ThreadCreate(t) /\ threads[t].raw = raw
       ELSE ThreadRow(t, raw) /\ raw.mac \in DOMAIN devices

\* The step leaves the log and the registry as the loop body and the
\* operations make them whether or not the collaborator is there, and fails
\* in neither case.
SameWithoutCollaborator ==
    /\ \A t \in DOMAIN threads, raw \in ScanRows, create \in BOOLEAN :
          BodyStep(t, raw, create) =>
              LET r == RowOutcome(t, raw, create)
              IN  /\ devices' = r.devices
                  /\ linger_first_seen' = r.first_seen
                  /\ linger_alerted' = r.alerted
                  /\ [i \in DOMAIN NewAlerts |->
                         Alert(NewAlerts[i].level, NewAlerts[i].kind, NewAlerts[i].mac)] = r.alerts
                  /\ threads'[t].pc = "rows"
                  /\ NewDispatched = (IF notif THEN DispatchOf(r.alerts, TRUE) ELSE <<>>)
    /\ \A t \in DOMAIN threads, raw \in ScanRows :
          ThreadRow(t, raw) /\ threads[t].mode = "WATCHLIST" =>
              /\ published' - published = Len(WatchlistRow(raw, threads[t]))
              /\ threads'[t].pc = "rows"
    /\ \A op \in {"label", "add", "remove"}, mac \in Macs, label \in Labels, group \in Groups :
          MutationStep(op, mac, label, group, TRUE) => MutationKept(op, mac, label, group)

(* C25: with the notification collaborator absent every operation appends the
   same alerts and leaves the same profile state as with it present, none
   fails, and nothing is dispatched. *)
AbsentCollaboratorHarmless ==
    /\ [](~notif => dispatched = <<>>)
    /\ [][SameWithoutCollaborator]_vars

\* Without the collaborator a cross-mode, linger or watchlist alert has been published.
AlertWithoutCollaborator ==
    /\ ~notif
    /\ \E i \in DOMAIN alert_queue : alert_queue[i].kind \in NotifiedKinds

\* The trend the contract gives a history: over its last min(5, length)
\* readings, newest minus oldest against 5 dBm.
TrendByContract(hist) ==
    LET n == Len(hist)
        k == Min(5, n)
    IN  IF n < 2 THEN "unknown"
        ELSE LET delta == hist[n] - hist[n - k + 1]
             IN  IF delta > 5 THEN "approaching"
                 ELSE IF delta < -5 THEN "receding"
                 ELSE "stable"

(* C26: calculate_signal_trend looks at the last min(5, length) readings only:
   unknown below 2 readings or without a profile, else approaching iff newest
   minus oldest of the window > 5, receding iff < -5, stable in between; and
   that is what the loops store in the profile. *)
TrendFollowsContract ==
    /\ [](\A mac \in Macs :
            SignalTrendOf(devices, mac) =
                IF mac \in DOMAIN devices THEN TrendByContract(devices[mac].signal_history)
                ELSE "unknown")
    /\ [][\A mac \in Macs :
            TrendCall(mac) =>
                devices'[mac].signal_trend = TrendByContract(devices[mac].signal_history)]_vars

\* A stored trend of a history longer than the window: stable over the last 5
\* readings although the newest is more than 5 dBm above the first.
TrendOfLongHistory ==
    \E mac \in DOMAIN devices :
        LET h == devices[mac].signal_history
        IN  /\ Len(h) = MaxHistory
            /\ h[Len(h)] - h[1] > TrendDelta
            /\ devices[mac].signal_trend = "stable"

\* The manufacturer the contract gives a row: the table's entry first, the
\* backend's value for a prefix the table lacks, Unknown when neither has one.
ManufacturerByContract(row) ==
    IF Lower(row.mac.oui) \in DOMAIN KNOWN_OUI THEN KNOWN_OUI[Lower(row.mac.oui)]
    ELSE IF row.manuf # "" THEN row.manuf
    ELSE "Unknown"

(* C27: the manufacturer of a normalized row is the prefix table's entry when
   the address prefix is in the table, the backend's value only when it is
   not, and Unknown only when neither gives one: the profile a row creates
   carries that manufacturer. *)
ManufacturerFromTableFirst ==
    [][\A row \in ManufRows :
          (ManufRow(row) /\ row.mac \notin DOMAIN devices) =>
              devices'[row.mac].manufacturer = ManufacturerByContract(row)]_vars

(* C28: a mode task keeps repeating scan cycles and ends only because its
   cancellation was signalled: none returns on its own after one pass or
   because a cycle found nothing to scan. *)
TaskEndsOnlyCancelled ==
    [][\A t \in DOMAIN threads :
          (threads[t].pc # "done" /\ threads'[t].pc = "done")
              => stop_events[EventOf(t)]]_vars

\* A step of label_device, add_to_watchlist or remove_from_watchlist.
RequestStep ==
    \/ \E op \in {"label", "add", "remove"}, mac \in Macs, label \in Labels,
          group \in Groups, saved \in BOOLEAN : ApiCall(op, mac, label, group, saved)
    \/ \E saved \in BOOLEAN : ApiCreate(saved)

\* A step that assigns a fresh DeviceProfile to the registry entry of m.
Creates(m) ==
    \/ \E t \in DOMAIN threads : ThreadCreate(t) /\ threads[t].raw.mac = m
    \/ \E saved \in BOOLEAN : ApiCreate(saved) /\ api.mac = m

(* C29: once a device has a profile every later operation acts on that
   profile: none deletes or replaces it, the encounters counted never go
   down, and its label, group and watchlisted flag change only in a label or
   watchlist call. *)
ProfileNeverReplaced ==
    [][\A m \in DOMAIN devices :
          /\ m \in DOMAIN devices'
          /\ ~Creates(m)
          /\ devices'[m].total_encounters >= devices[m].total_encounters
          /\ (\/ devices'[m].label # devices[m].label
              \/ devices'[m].group # devices[m].group
              \/ devices'[m].is_watchlisted # devices[m].is_watchlisted) => RequestStep]_vars

\* A step in which thread t applies an observation of m.
ObservesIn(t, m) ==
    /\ threads[t].mode # "WATCHLIST"
    /\ \/ ThreadRow(t, [mac |-> m]) /\ m \in DOMAIN devices
       \/ ThreadCreate(t) /\ threads[t].raw.mac = m

NoDuplicate(seq) == \A i, j \in DOMAIN seq : seq[i] = seq[j] => i = j

(* C30: the mode-context tags of a profile never shrink and never hold a
   duplicate: an observation in context c leaves the list as it is when c is
   in it and appends c otherwise, and no other operation (label, watchlist
   calls, save) changes the tags. *)
TagsAppendOnly ==
    [][\A m \in DOMAIN devices :
          /\ m \in DOMAIN devices'
          /\ NoDuplicate(devices'[m].modes_seen_in)
          /\ \A t \in DOMAIN threads :
                ObservesIn(t, m) =>
                    devices'[m].modes_seen_in =
                        IF threads[t].mode \in TagsOf(m) THEN devices[m].modes_seen_in
                        ELSE Append(devices[m].modes_seen_in, threads[t].mode)
          /\ ~Observes(m) => devices'[m].modes_seen_in = devices[m].modes_seen_in]_vars

(* C31: the control surface can start SCREENSAVER mode: a request for it is
   taken up like any other mode request, cancelling the running task and
   going on to launch the SCREENSAVER task (which scans only while the idle
   signal is at or above the threshold and pauses, alive, below it). *)
ScreensaverStartable ==
    [][ApiMode("SCREENSAVER") => (req'.pc = "join" /\ req'.mode = "SCREENSAVER")]_vars

\* The CRITICAL watchlist alerts the step has published about m.
NewWatchlistAlerts(m) ==
    {i \in DOMAIN NewAlerts :
        /\ NewAlerts[i].mac = m
        /\ NewAlerts[i].kind \in {"watchlist_hit", "watchlist_arrived", "watchlisted"}}

(* C32: once remove_from_watchlist(mac) has returned the device is absent from
   get_watchlist(), and until it is put on the watchlist again no observation
   of it publishes a CRITICAL watchlist alert in any mode, a WATCHLIST scan
   that was already running included. *)
RemovedDeviceIsQuiet ==
    [][\A m \in Macs :
          /\ ApiCall("remove", m, "", "unknown", TRUE) => m \notin GetWatchlist(devices')
          /\ (m \in DOMAIN devices /\ m \notin GetWatchlist(devices))
                => NewWatchlistAlerts(m) = {}]_vars

(* C33: for every limit >= 0 get_recent_alerts(limit) returns exactly the
   min(limit, log length) most recent alerts in append order, so never more
   than limit alerts. *)
RecentAlertsWithinLimit ==
    [][\A limit \in AlertLimits :
          ApiAlerts(limit) =>
              LET n == Len(alert_queue)
                  k == Min(limit, n)
              IN  /\ Len(recent'.alerts) <= limit
                  /\ recent'.alerts = [i \in 1..k |-> alert_queue[n - k + i]]]_vars

(* C34: whenever a mode task is executing (it has run its first statement and
   has not returned), current_mode, which the status endpoint reports, is the
   mode of that task; before any mode has been started it is IDLE. *)
CurrentModeIsRunningTask ==
    /\ threads = <<>> => current_mode = "IDLE"
    /\ \A t \in DOMAIN threads :
          (Alive(t) /\ threads[t].pc # "start") => current_mode = threads[t].mode

\* The alerts of the given kinds the step has published about m.
NewAlertsAbout(m, kinds) ==
    {i \in DOMAIN NewAlerts : NewAlerts[i].mac = m /\ NewAlerts[i].kind \in kinds}

ArrivalKinds == {"arrival", "unknown", "watchlist_arrived"}

(* C35: within a DOORBELL task arrivals and departures of a device alternate,
   beginning with an arrival: a cycle publishes one arrival event for a device
   exactly when the device is observed in it and was not in the previous
   cycle's present set, one DEPARTURE exactly when it was in that set and is
   not observed; after each cycle present_macs is the set observed in it. *)
ArrivalsAndDeparturesAlternate ==
    [][\A t \in DOMAIN threads : \A m \in Macs :
          /\ (threads[t].mode = "DOORBELL" /\ ObservesIn(t, m)) =>
                Cardinality(NewAlertsAbout(m, ArrivalKinds)) =
                    (IF m \notin threads[t].prev_present /\ m \notin threads[t].current_macs
                     THEN 1 ELSE 0)
          /\ DoorbellScanEnds(t) =>
                /\ Cardinality(NewAlertsAbout(m, {"departure"})) =
                      (IF m \in threads[t].prev_present \ threads[t].current_macs
                       THEN 1 ELSE 0)
                /\ present_macs' = threads[t].current_macs]_vars

(* C36: in DOORBELL mode an unlabeled, non-watchlisted device that keeps
   arriving has its UNKNOWN device alert escalated: from its third counted
   arrival on (it has come and gone twice before) the alert is a WARNING. *)
ThirdArrivalEscalates ==
    [][\A t \in DOMAIN threads : \A m \in Macs :
          (/\ Len(threads) = 1
           /\ threads[t].mode = "DOORBELL"
           /\ ObservesIn(t, m)
           /\ m \notin threads[t].prev_present
           /\ m \notin threads[t].current_macs
           /\ CountAlerts("departure", m) >= 2)
              => \E i \in DOMAIN NewAlerts :
                    /\ NewAlerts[i].mac = m
                    /\ NewAlerts[i].kind = "unknown"
                    /\ NewAlerts[i].level = "WARNING"]_vars

(* C37: scan_and_correlate is idempotent: a second run over the same backend
   rows and the same checkpoints leaves total_hits, the stored sightings and
   the ranking as the first run left them (total_hits counts the distinct
   accepted rows). *)
ScanIsIdempotent ==
    [][\A batch \in Batches, home_macs \in HomeSets :
          ScanAndCorrelate(batch, home_macs) =>
              /\ Correlated(batch, home_macs)' = profiles'
              /\ (our_checkpoints # {} =>
                    GetRankedStalkers(Correlated(batch, home_macs)', DefaultMinLocations,
                                      DefaultLimit) = ranked'.list)]_vars

\* A step in which a mode task applies an observation of m, with or without
\* a signal reading.
ObservesReading(m) ==
    \E t \in DOMAIN threads :
        /\ threads[t].mode \in {"HOME", "ROAM", "DOORBELL"}
        /\ \/ \E raw \in Rows : raw.mac = m /\ m \in DOMAIN devices /\ ThreadRow(t, raw)
           \/ ThreadCreate(t) /\ threads[t].raw.mac = m

(* C38: after an observation has been applied in HOME, ROAM or DOORBELL the
   profile's stored signal_trend equals calculate_signal_trend over its
   current signal_history: the stored trend is never stale. *)
StoredTrendIsCurrent ==
    [][\A m \in Macs :
          ObservesReading(m) =>
              devices'[m].signal_trend = CalculateSignalTrend(devices'[m].signal_history)]_vars

(* C39: starting from new profiles, home_encounters + roam_encounters never
   exceeds total_encounters; an observation applied in HOME adds 1 to
   home_encounters, one applied in ROAM adds 1 to roam_encounters only while
   the profile has no HOME tag. *)
ContextCountersWithinTotal ==
    /\ [](\A m \in DOMAIN devices :
            devices[m].home_encounters + devices[m].roam_encounters
                <= devices[m].total_encounters)
    /\ [][\A t \in DOMAIN threads :
            ThreadStoreTotal(t) =>
                LET m == threads[t].raw.mac
                IN  /\ devices'[m].home_encounters = devices[m].home_encounters
                          + (IF threads[t].mode = "HOME" THEN 1 ELSE 0)
                    /\ devices'[m].roam_encounters = devices[m].roam_encounters
                          + (IF threads[t].mode = "ROAM" /\ "HOME" \notin TagsOf(m)
                             THEN 1 ELSE 0)]_vars

====
